---- MODULE Spec2Model ----
(***************************************************************************)
(* Verification model of scope-rs.                                         *)
(*                                                                         *)
(* Part 1: the connection engine (crates/scope-core/src/engine.rs).        *)
(* The engine is one task that loops over select!{command, tick}.  The     *)
(* model keeps the task's local variables under their source names, the    *)
(* task's position (pc), and the environment the task talks to: which      *)
(* devices can be opened, how many device handles are open, and the events *)
(* and device calls made by the handler that is being serviced.            *)
(*                                                                         *)
(* Time: the code holds next_retry as an Instant and only ever compares it *)
(* with Instant::now().  The model holds next_retry as the number of       *)
(* milliseconds that remain until that deadline (0 = the deadline has      *)
(* elapsed); letting dt milliseconds pass lowers it by dt, not below 0.    *)
(***************************************************************************)
EXTENDS Integers, Sequences, FiniteSets, TLC

----------------------------------------------------------------------------
(* Bounds of the model *)

\* longest payload of a SendBytes command or of one read
MaxLen == 1

\* commands the command channel holds in the model (the code's channel
\* holds CmdCapacity)
CmdCap == 1

\* events the event channel holds in the model (the code's channel holds
\* EvtCapacity)
EvtCap == 2

\* items one producer handle publishes on the fan-out channel
MaxPublish == 2

\* items the backlog of one consumer of the fan-out channel holds
FanCap == 2

\* longest byte sequence given to bytes_to_mixed_segments
FmtLen == 3

\* most pieces (sequences of the table, fragments, single bytes) an input
\* of bytes_to_ansi_segments is made of
AnsiPieces == 3

\* most entries the history of the command line grows to
MaxHistory == 2

\* lines added to the terminal view beyond the MAX_LINES it holds
Overfill == 2

\* how far the payload lengths tried for encode_mux_frame go beyond 0 and
\* to either side of MAX_DATA_LEN
Slack == 1

\* commands the command channel holds when the order of the commands is
\* looked at (the code's channel holds CmdCapacity)
CmdDepth == 2

----------------------------------------------------------------------------
(* Program constants *)

BackoffFloor == 200
BackoffCeil == 2000
TickMs == 30
DefaultBaud == 115200
CmdCapacity == 64
EvtCapacity == 512
SOF == 191
MAX_DATA_LEN == 1023
MAX_LINES == 1000

----------------------------------------------------------------------------
(* Input domains *)

Ports == {"ttyUSB0", "ttyUSB1"}
ByteVals == {65, 10}

SerialConfig == [port : Ports, baudrate : {DefaultBaud}]

RECURSIVE SeqsUpTo(_, _)
SeqsUpTo(S, n) ==
    IF n = 0 THEN {<<>>}
    ELSE LET shorter == SeqsUpTo(S, n - 1)
         IN  shorter \cup {Append(s, b) : s \in {t \in shorter : Len(t) = n - 1}, b \in S}

Payloads == SeqsUpTo(ByteVals, MaxLen)

\* std::io::ErrorKind of a failed read or write
IoErrorKinds == {"TimedOut", "BrokenPipe"}

\* time that passes between two services of the tick branch: 0 when a
\* delayed tick is caught up at once, TickMs otherwise
Elapsed == {0, TickMs}

ConnectionState == {"Disconnected", "Connecting", "Connected"}

None == "None"

----------------------------------------------------------------------------
(* State *)

VARIABLES
    state,        \* engine.rs:33  ConnectionState
    desired,      \* engine.rs:34  Option<SerialConfig>: <<>> or <<cfg>>
    port,         \* engine.rs:35  None or "Some" (the boxed device handle)
    backoff_ms,   \* engine.rs:36
    next_retry,   \* engine.rs:37  ms left until the retry deadline
    pc,           \* position of the task: "select", "read" (tick handler
                  \* past its retry block), "done" (loop left)
    openable,     \* environment: the ports try_open can open now
    handles,      \* environment: number of open device handles
    events,       \* events sent on evt_tx by the handler being serviced
    prev_evt,     \* the last event sent before that handler started
    reported,     \* state carried by the last ConnectionState event sent
    calls,        \* device calls (with outcome) of the handler being serviced
    live_at_open, \* handles open when that handler called try_open
    \* the engine's two channels (engine.rs:29-30) and their other ends
    cmd_queue,      \* commands sent on cmd_tx and not yet received
    senders_alive,  \* some clone of cmd_tx is alive
    evt_queue,      \* events accepted by the event channel, not yet received
    outbox,         \* events the suspended handler still has to send
    consumer_alive, \* evt_rx is alive
    in_flight,      \* events the engine produced that evt_rx has not received
    last_recv,      \* what the consumer's last recv() returned
    \* a fan-out channel (infra::mpmc::Channel) with its handles
    fan_policy,     \* what a full backlog does with a new item
    fan_consumers,  \* consumers created by new_consumer()
    fan_backlog,    \* per consumer: items published to it and not yet received
    fan_published,  \* per producer: number of items it has published
    fan_stream,     \* every item published, in publication order
    fan_joined,     \* per consumer: length of the stream when it was created
    fan_seen,       \* per consumer: the items its try_recv() calls returned
    fan_lost,       \* per consumer: its backlog has overflowed
    fan_last,       \* per consumer: what its last try_recv() returned
    \* encode_mux_frame (terminal_view.rs:78): last arguments and result
    mux_data,
    mux_link,
    mux_frame,
    \* the byte formatters (format.rs): last call and its result
    fmt_op,         \* "none", "mixed" or "ansi"
    fmt_bytes,      \* the argument
    fmt_segments,   \* the segments returned
    fmt_text,       \* bytes_to_mixed_ascii of the argument ("mixed")
    fmt_scanned,    \* msg after the strip phase ("ansi")
    fmt_active,     \* per segment returned: the value of color when
                    \* it was emitted ("ansi")
    \* the command line of the GUI (gui_main.rs:40-43)
    input,           \* the text of the input field
    history,         \* Vec<String>, oldest first
    history_index,   \* Option<usize>: <<>> or <<idx>>, idx counted from 0
    history_backup,  \* String
    nav_input,       \* the input text when history_index was last set from None
    hist_msg,        \* the Message handled last by ScopeGui::update
    \* the terminal view (terminal_view.rs:108)
    lines            \* VecDeque<TerminalLine>, oldest first; a line is the
                     \* number of add_line calls since the last clear()
                     \* up to and including the one that added it

engine == <<state, desired, port, backoff_ms, next_retry>>
engine_vars == <<state, desired, port, backoff_ms, next_retry, pc, openable,
                 handles, events, prev_evt, reported, calls, live_at_open>>
queue_vars == <<cmd_queue, senders_alive, evt_queue, outbox, consumer_alive,
                in_flight, last_recv>>
fan_vars == <<fan_policy, fan_consumers, fan_backlog, fan_published,
              fan_stream, fan_joined, fan_seen, fan_lost, fan_last>>
mux_vars == <<mux_data, mux_link, mux_frame>>
fmt_vars == <<fmt_op, fmt_bytes, fmt_segments, fmt_text, fmt_scanned, fmt_active>>
hist_vars == <<input, history, history_index, history_backup, nav_input, hist_msg>>
gui_vars == <<hist_vars, lines>>
other_vars == <<fan_vars, mux_vars, fmt_vars, gui_vars>>
vars == <<engine_vars, queue_vars, fan_vars, mux_vars, fmt_vars, gui_vars>>

----------------------------------------------------------------------------
(* Events (EngineEvent) and device calls *)

StateEvt(s) == <<"ConnectionState", s>>
MessageEvt(direction, bytes) == <<"Message", direction, bytes>>
ErrorEvt(text) == <<"Error", text>>

\* format!("Connected to {} @ {}", cfg.port, cfg.baudrate).into_bytes()
ConnectedText(cfg) == <<"Connected to ", cfg.port, " @ ", cfg.baudrate>>
\* with_context(|| format!("Failed to open serial port {} @ {}", ..)).to_string()
OpenFailedText(cfg) == <<"Failed to open serial port ", cfg.port, " @ ", cfg.baudrate>>
\* err.to_string() of an io::Error
IoErrorText(kind) == <<"io error: ", kind>>
NotConnectedText == <<"Not connected">>

NoEvent == <<"NoEvent">>

\* a device call of a handler and its outcome: "Ok" or the error
Call(op, res) == <<op, res>>

RECURSIVE OpensIn(_)
OpensIn(cs) ==
    IF cs = <<>> THEN 0
    ELSE (IF cs[1][1] = "open" THEN 1 ELSE 0) + OpensIn(Tail(cs))

WritesIn(cs) == Cardinality({i \in DOMAIN cs : cs[i][1] = "write"})

LastOf(evs, dflt) == IF evs = <<>> THEN dflt ELSE evs[Len(evs)]

RECURSIVE LastState(_, _)
LastState(evs, dflt) ==
    IF evs = <<>> THEN dflt
    ELSE IF evs[Len(evs)][1] = "ConnectionState" THEN evs[Len(evs)][2]
    ELSE LastState(SubSeq(evs, 1, Len(evs) - 1), dflt)

\* a handler that starts: its events and calls replace the previous handler's
Begin(evs, cs) ==
    /\ events' = evs
    /\ prev_evt' = LastOf(events, prev_evt)
    /\ reported' = LastState(evs, reported)
    /\ calls' = cs

\* a handler that goes on: its events and calls are added
Continue(evs, cs) ==
    /\ events' = events \o evs
    /\ prev_evt' = prev_evt
    /\ reported' = LastState(evs, reported)
    /\ calls' = calls \o cs

Min(a, b) == IF a < b THEN a ELSE b
Max(a, b) == IF a > b THEN a ELSE b

----------------------------------------------------------------------------
(* Helpers of the engine *)

\* engine.rs:168-172
try_open(cfg) == IF cfg.port \in openable THEN "Ok" ELSE "Err"

\* mutant of Doubled: the backoff grows by the floor instead of doubling
Doubled_Linear(b) == Min(b + BackoffFloor, BackoffCeil)

\* mutant of Doubled: the ceiling is not applied
Doubled_Uncapped(b) == b * 2

\* engine.rs:72, 123, 151
Doubled(b) == Min(b * 2, BackoffCeil)

\* dropping the Option<Box<dyn SerialPort>> closes the handle it holds
Dropped(p, h) == IF p = "Some" THEN h - 1 ELSE h

----------------------------------------------------------------------------
(* Init: the task has run up to its loop (engine.rs:33-41) *)

EngineInit ==
    /\ state = "Disconnected"
    /\ desired = <<>>
    /\ port = None
    /\ backoff_ms = BackoffFloor
    /\ next_retry = 0
    /\ pc = "select"
    /\ openable \in SUBSET Ports
    /\ handles = 0
    /\ events = <<StateEvt("Disconnected")>>
    /\ prev_evt = NoEvent
    /\ reported = "Disconnected"
    /\ calls = <<>>
    /\ live_at_open = 0

\* mutant of QueuesInit: line 39 left out, nothing is sent before the loop
QueuesInit_NoFirstEvent ==
    /\ cmd_queue = <<>>
    /\ senders_alive = TRUE
    /\ evt_queue = <<>>
    /\ outbox = <<>>
    /\ consumer_alive = TRUE
    /\ in_flight = <<>>
    /\ last_recv = NoEvent

\* engine.rs:29-30, 39: both channels are open; the first event is in the
\* event channel
QueuesInit ==
    /\ cmd_queue = <<>>
    /\ senders_alive = TRUE
    /\ evt_queue = <<StateEvt("Disconnected")>>
    /\ outbox = <<>>
    /\ consumer_alive = TRUE
    /\ in_flight = <<StateEvt("Disconnected")>>
    /\ last_recv = NoEvent

\* the fan-out channel as created by Channel::default(): no consumer, nothing
\* published
FanProducers == {"p1", "p2"}
FanConsumers == {"c1", "c2"}
NoItem == <<>>

FanIdle ==
    /\ fan_consumers = {}
    /\ fan_backlog = [c \in FanConsumers |-> <<>>]
    /\ fan_published = [p \in FanProducers |-> 0]
    /\ fan_stream = <<>>
    /\ fan_joined = [c \in FanConsumers |-> 0]
    /\ fan_seen = [c \in FanConsumers |-> <<>>]
    /\ fan_lost = [c \in FanConsumers |-> FALSE]
    /\ fan_last = [c \in FanConsumers |-> NoItem]

\* nothing encoded yet
MuxIdle ==
    /\ mux_data = <<>>
    /\ mux_link = 0
    /\ mux_frame = <<>>

\* no formatter called yet
FmtIdle ==
    /\ fmt_op = "none"
    /\ fmt_bytes = <<>>
    /\ fmt_segments = <<>>
    /\ fmt_text = <<>>
    /\ fmt_scanned = <<>>
    /\ fmt_active = <<>>

\* gui_main.rs:466-469: ScopeGui::new
HistIdle ==
    /\ input = <<>>
    /\ history = <<>>
    /\ history_index = <<>>
    /\ history_backup = <<>>
    /\ nav_input = <<>>
    /\ hist_msg = "none"

\* terminal_view.rs:130-132: TerminalView::new
ViewIdle == lines = <<>>

Init ==
    /\ EngineInit
    /\ QueuesInit
    /\ FanIdle /\ fan_policy = "drop_oldest"
    /\ MuxIdle
    /\ FmtIdle
    /\ HistIdle
    /\ ViewIdle

----------------------------------------------------------------------------
(* Command handlers *)

\* mutant of ConnectOpened: the System message is sent before Connected
ConnectOpened_MessageFirst(cfg, h0, cs) ==
    /\ port' = "Some"
    /\ handles' = h0 + 1
    /\ state' = "Connected"
    /\ backoff_ms' = BackoffFloor
    /\ next_retry' = 0
    /\ Begin(<<StateEvt("Connecting"), MessageEvt("System", ConnectedText(cfg)),
               StateEvt("Connected")>>,
             cs \o <<Call("open", "Ok")>>)

\* engine.rs:51-52, 54-66: the open of a Connect command succeeded;
\* h0 handles were open when try_open was called, cs are the calls so far
ConnectOpened(cfg, h0, cs) ==
    /\ port' = "Some"
    /\ handles' = h0 + 1
    /\ state' = "Connected"
    /\ backoff_ms' = BackoffFloor
    /\ next_retry' = 0
    /\ Begin(<<StateEvt("Connecting"), StateEvt("Connected"),
               MessageEvt("System", ConnectedText(cfg))>>,
             cs \o <<Call("open", "Ok")>>)

\* engine.rs:51-52, 67-73: the open of a Connect command failed
ConnectFailed(cfg, h0, cs) ==
    /\ port' = None
    /\ handles' = h0
    /\ state' = "Connecting"
    /\ next_retry' = backoff_ms
    /\ backoff_ms' = Doubled(backoff_ms)
    /\ Begin(<<StateEvt("Connecting"), ErrorEvt(OpenFailedText(cfg))>>,
             cs \o <<Call("open", "Err")>>)

\* mutant of Connect: line 50 left out, the old handle is still held when
\* try_open is called and goes only when port is assigned again
Connect_KeepPort(cfg) ==
    /\ pc = "select"
    /\ desired' = <<cfg>>
    /\ live_at_open' = handles
    /\ IF try_open(cfg) = "Ok"
         THEN ConnectOpened(cfg, Dropped(port, handles), <<>>)
         ELSE ConnectFailed(cfg, Dropped(port, handles), <<>>)
    /\ UNCHANGED <<pc, openable>>

\* mutant of Connect: the open is left to the tick when a retry deadline is
\* still ahead
Connect_Deferred(cfg) ==
    /\ pc = "select"
    /\ desired' = <<cfg>>
    /\ LET h0 == Dropped(port, handles)
           cs == IF port = "Some" THEN <<Call("drop", "Ok")>> ELSE <<>>
       IN  IF next_retry = 0
             THEN /\ live_at_open' = h0
                  /\ IF try_open(cfg) = "Ok"
                       THEN ConnectOpened(cfg, h0, cs)
                       ELSE ConnectFailed(cfg, h0, cs)
             ELSE /\ port' = None
                  /\ handles' = h0
                  /\ state' = "Connecting"
                  /\ Begin(<<StateEvt("Connecting")>>, cs)
                  /\ live_at_open' = 0
                  /\ UNCHANGED <<backoff_ms, next_retry>>
    /\ UNCHANGED <<pc, openable>>

\* mutant of Connect: the open is tried first and a handle that is open is
\* given up only for the new one; when the open fails the engine stays
\* Connected on the old handle
Connect_KeepOnFailure(cfg) ==
    /\ pc = "select"
    /\ desired' = <<cfg>>
    /\ LET h0 == Dropped(port, handles)
           cs == IF port = "Some" THEN <<Call("drop", "Ok")>> ELSE <<>>
       IN  IF try_open(cfg) = "Err" /\ port = "Some"
             THEN /\ live_at_open' = handles
                  /\ Begin(<<StateEvt("Connecting"), ErrorEvt(OpenFailedText(cfg)),
                             StateEvt("Connected")>>,
                           <<Call("open", "Err")>>)
                  /\ UNCHANGED <<state, port, backoff_ms, next_retry, handles>>
             ELSE /\ live_at_open' = h0
                  /\ IF try_open(cfg) = "Ok"
                       THEN ConnectOpened(cfg, h0, cs)
                       ELSE ConnectFailed(cfg, h0, cs)
    /\ UNCHANGED <<pc, openable>>

\* engine.rs:48-75
Connect(cfg) ==
    /\ pc = "select"
    /\ desired' = <<cfg>>
    /\ LET h0 == Dropped(port, handles)
           cs == IF port = "Some" THEN <<Call("drop", "Ok")>> ELSE <<>>
       IN  /\ live_at_open' = h0
           /\ IF try_open(cfg) = "Ok"
                THEN ConnectOpened(cfg, h0, cs)
                ELSE ConnectFailed(cfg, h0, cs)
    /\ UNCHANGED <<pc, openable>>

\* mutant of Disconnect: line 77 left out, the desired config stays
Disconnect_KeepDesired ==
    /\ pc = "select"
    /\ port' = None
    /\ handles' = Dropped(port, handles)
    /\ state' = "Disconnected"
    /\ Begin(<<StateEvt("Disconnected")>>,
             IF port = "Some" THEN <<Call("drop", "Ok")>> ELSE <<>>)
    /\ live_at_open' = 0
    /\ UNCHANGED <<desired, backoff_ms, next_retry, pc, openable>>

\* mutant of Disconnect: the disconnect is booked like a link loss, the
\* retry deadline and the backoff move on
Disconnect_Backoff ==
    /\ pc = "select"
    /\ desired' = <<>>
    /\ port' = None
    /\ handles' = Dropped(port, handles)
    /\ state' = "Disconnected"
    /\ next_retry' = backoff_ms
    /\ backoff_ms' = Doubled(backoff_ms)
    /\ Begin(<<StateEvt("Disconnected")>>,
             IF port = "Some" THEN <<Call("drop", "Ok")>> ELSE <<>>)
    /\ live_at_open' = 0
    /\ UNCHANGED <<pc, openable>>

\* mutant of Disconnect: line 78 left out, the handle stays open
Disconnect_KeepHandle ==
    /\ pc = "select"
    /\ desired' = <<>>
    /\ state' = "Disconnected"
    /\ Begin(<<StateEvt("Disconnected")>>, <<>>)
    /\ live_at_open' = 0
    /\ UNCHANGED <<port, handles, backoff_ms, next_retry, pc, openable>>

\* engine.rs:76-81
Disconnect ==
    /\ pc = "select"
    /\ desired' = <<>>
    /\ port' = None
    /\ handles' = Dropped(port, handles)
    /\ state' = "Disconnected"
    /\ Begin(<<StateEvt("Disconnected")>>,
             IF port = "Some" THEN <<Call("drop", "Ok")>> ELSE <<>>)
    /\ live_at_open' = 0
    /\ UNCHANGED <<backoff_ms, next_retry, pc, openable>>

\* outcomes of p.write_all(&bytes): Ok or Err(kind)
WriteResults == {"Ok"} \cup IoErrorKinds

\* mutant of SendBytes: the Tx message is sent whether or not a handle is open
SendBytes_EchoAlways(bytes, wr) ==
    /\ pc = "select"
    /\ IF port = "Some"
         THEN IF wr # "Ok"
                THEN Begin(<<ErrorEvt(IoErrorText(wr))>>, <<Call("write", wr)>>)
                ELSE Begin(<<MessageEvt("Tx", bytes)>>, <<Call("write", "Ok")>>)
         ELSE /\ wr = "Ok"
              /\ Begin(<<ErrorEvt(NotConnectedText), MessageEvt("Tx", bytes)>>, <<>>)
    /\ live_at_open' = 0
    /\ UNCHANGED <<engine, pc, openable, handles>>

\* mutant of SendBytes: a failed write is treated as a link loss, like a
\* failed read
SendBytes_WriteFatal(bytes, wr) ==
    /\ pc = "select"
    /\ IF port = "Some"
         THEN IF wr # "Ok"
                THEN /\ port' = None
                     /\ handles' = handles - 1
                     /\ state' = "Connecting"
                     /\ next_retry' = backoff_ms
                     /\ backoff_ms' = Doubled(backoff_ms)
                     /\ Begin(<<ErrorEvt(IoErrorText(wr)), StateEvt("Connecting")>>,
                              <<Call("write", wr), Call("drop", "Ok")>>)
                     /\ UNCHANGED desired
                ELSE /\ Begin(<<MessageEvt("Tx", bytes)>>, <<Call("write", "Ok")>>)
                     /\ UNCHANGED <<engine, handles>>
         ELSE /\ wr = "Ok"
              /\ Begin(<<ErrorEvt(NotConnectedText)>>, <<>>)
              /\ UNCHANGED <<engine, handles>>
    /\ live_at_open' = 0
    /\ UNCHANGED <<pc, openable>>

\* mutant of SendBytes: the bytes are reported as sent after a failed write too
SendBytes_TxOnFailure(bytes, wr) ==
    /\ pc = "select"
    /\ IF port = "Some"
         THEN IF wr # "Ok"
                THEN Begin(<<ErrorEvt(IoErrorText(wr)), MessageEvt("Tx", bytes)>>,
                           <<Call("write", wr)>>)
                ELSE Begin(<<MessageEvt("Tx", bytes)>>, <<Call("write", "Ok")>>)
         ELSE /\ wr = "Ok"
              /\ Begin(<<ErrorEvt(NotConnectedText)>>, <<>>)
    /\ live_at_open' = 0
    /\ UNCHANGED <<engine, pc, openable, handles>>

\* engine.rs:82-96; wr is the outcome of write_all when a handle is open
SendBytes(bytes, wr) ==
    /\ pc = "select"
    /\ IF port = "Some"
         THEN IF wr # "Ok"
                THEN Begin(<<ErrorEvt(IoErrorText(wr))>>, <<Call("write", wr)>>)
                ELSE Begin(<<MessageEvt("Tx", bytes)>>, <<Call("write", "Ok")>>)
         ELSE /\ wr = "Ok"
              /\ Begin(<<ErrorEvt(NotConnectedText)>>, <<>>)
    /\ live_at_open' = 0
    /\ UNCHANGED <<engine, pc, openable, handles>>

\* engine.rs:45-46: recv() yields None once every sender is dropped; the
\* task ends and drops its locals
Closed ==
    /\ pc = "select"
    /\ pc' = "done"
    /\ port' = None
    /\ handles' = Dropped(port, handles)
    /\ Begin(<<>>, IF port = "Some" THEN <<Call("drop", "Ok")>> ELSE <<>>)
    /\ live_at_open' = 0
    /\ UNCHANGED <<state, desired, backoff_ms, next_retry, openable>>

----------------------------------------------------------------------------
(* Tick handler *)

\* mutant of TickOpened: line 104 left out, a retry does not report Connecting
TickOpened_Silent ==
    /\ port' = "Some"
    /\ handles' = handles + 1
    /\ state' = "Connected"
    /\ backoff_ms' = BackoffFloor
    /\ next_retry' = 0
    /\ Begin(<<StateEvt("Connected"),
               MessageEvt("System", ConnectedText(desired[1]))>>,
             <<Call("open", "Ok")>>)

\* mutant of TickOpened: line 111 left out, the retry that opened the
\* device does not report Connected
TickOpened_Unreported ==
    /\ port' = "Some"
    /\ handles' = handles + 1
    /\ state' = "Connected"
    /\ backoff_ms' = BackoffFloor
    /\ next_retry' = 0
    /\ Begin(<<StateEvt("Connecting"),
               MessageEvt("System", ConnectedText(desired[1]))>>,
             <<Call("open", "Ok")>>)

\* engine.rs:103-104, 106-118: the open of a retry succeeded
TickOpened ==
    /\ port' = "Some"
    /\ handles' = handles + 1
    /\ state' = "Connected"
    /\ backoff_ms' = BackoffFloor
    /\ next_retry' = 0
    /\ Begin(<<StateEvt("Connecting"), StateEvt("Connected"),
               MessageEvt("System", ConnectedText(desired[1]))>>,
             <<Call("open", "Ok")>>)

\* mutant of TickFailed: the deadline is set after the doubling
TickFailed_DeadlineAfterDoubling ==
    /\ state' = "Connecting"
    /\ next_retry' = Doubled(backoff_ms)
    /\ backoff_ms' = Doubled(backoff_ms)
    /\ Begin(<<StateEvt("Connecting"), ErrorEvt(OpenFailedText(desired[1]))>>,
             <<Call("open", "Err")>>)
    /\ UNCHANGED <<port, handles>>

\* engine.rs:103-104, 119-124: the open of a retry failed
TickFailed ==
    /\ state' = "Connecting"
    /\ next_retry' = backoff_ms
    /\ backoff_ms' = Doubled(backoff_ms)
    /\ Begin(<<StateEvt("Connecting"), ErrorEvt(OpenFailedText(desired[1]))>>,
             <<Call("open", "Err")>>)
    /\ UNCHANGED <<port, handles>>

\* mutant of Tick: the time that passes is not counted
Tick_NoCountdown(dt) ==
    /\ pc = "select"
    /\ pc' = "read"
    /\ LET left == next_retry
       IN  IF desired # <<>> /\ port = None /\ left = 0
             THEN /\ live_at_open' = handles
                  /\ IF try_open(desired[1]) = "Ok" THEN TickOpened ELSE TickFailed
             ELSE /\ next_retry' = left
                  /\ Begin(<<>>, <<>>)
                  /\ live_at_open' = 0
                  /\ UNCHANGED <<state, port, backoff_ms, handles>>
    /\ UNCHANGED <<desired, openable>>

\* engine.rs:99-128: the tick branch up to the read, serviced dt ms after
\* the previous service of a tick
Tick(dt) ==
    /\ pc = "select"
    /\ pc' = "read"
    /\ LET left == Max(next_retry - dt, 0)
       IN  IF desired # <<>> /\ port = None /\ left = 0
             THEN /\ live_at_open' = handles
                  /\ IF try_open(desired[1]) = "Ok" THEN TickOpened ELSE TickFailed
             ELSE /\ next_retry' = left
                  /\ Begin(<<>>, <<>>)
                  /\ live_at_open' = 0
                  /\ UNCHANGED <<state, port, backoff_ms, handles>>
    /\ UNCHANGED <<desired, openable>>

\* outcomes of p.read(&mut buf): Ok(0), Ok(n) with the n bytes, Err(kind)
ReadResults ==
    {<<"Ok", b>> : b \in Payloads} \cup {<<"Err", k>> : k \in IoErrorKinds}

\* mutant of ReadError: a link loss schedules the retry but leaves the
\* backoff as it is
ReadError_NoBackoff(kind) ==
    IF kind # "TimedOut"
      THEN /\ port' = None
           /\ handles' = handles - 1
           /\ IF desired # <<>>
                THEN /\ state' = "Connecting"
                     /\ next_retry' = backoff_ms
                     /\ backoff_ms' = backoff_ms
                     /\ Continue(<<ErrorEvt(IoErrorText(kind)), StateEvt("Connecting")>>,
                                 <<Call("read", kind), Call("drop", "Ok")>>)
                ELSE /\ state' = "Disconnected"
                     /\ Continue(<<ErrorEvt(IoErrorText(kind)), StateEvt("Disconnected")>>,
                                 <<Call("read", kind), Call("drop", "Ok")>>)
                     /\ UNCHANGED <<backoff_ms, next_retry>>
           /\ UNCHANGED desired
      ELSE /\ Continue(<<>>, <<Call("read", kind)>>)
           /\ UNCHANGED <<engine, handles>>

\* mutant of ReadError: line 143 left out, a timeout is a link loss too
ReadError_TimeoutFatal(kind) ==
    /\ port' = None
    /\ handles' = handles - 1
    /\ IF desired # <<>>
         THEN /\ state' = "Connecting"
              /\ next_retry' = backoff_ms
              /\ backoff_ms' = Doubled(backoff_ms)
              /\ Continue(<<ErrorEvt(IoErrorText(kind)), StateEvt("Connecting")>>,
                          <<Call("read", kind), Call("drop", "Ok")>>)
         ELSE /\ state' = "Disconnected"
              /\ Continue(<<ErrorEvt(IoErrorText(kind)), StateEvt("Disconnected")>>,
                          <<Call("read", kind), Call("drop", "Ok")>>)
              /\ UNCHANGED <<backoff_ms, next_retry>>
    /\ UNCHANGED desired

\* engine.rs:142-157: the read returned Err of this kind
ReadError(kind) ==
    IF kind # "TimedOut"
      THEN /\ port' = None
           /\ handles' = handles - 1
           /\ IF desired # <<>>
                THEN /\ state' = "Connecting"
                     /\ next_retry' = backoff_ms
                     /\ backoff_ms' = Doubled(backoff_ms)
                     /\ Continue(<<ErrorEvt(IoErrorText(kind)), StateEvt("Connecting")>>,
                                 <<Call("read", kind), Call("drop", "Ok")>>)
                ELSE /\ state' = "Disconnected"
                     /\ Continue(<<ErrorEvt(IoErrorText(kind)), StateEvt("Disconnected")>>,
                                 <<Call("read", kind), Call("drop", "Ok")>>)
                     /\ UNCHANGED <<backoff_ms, next_retry>>
           /\ UNCHANGED desired
      ELSE /\ Continue(<<>>, <<Call("read", kind)>>)
           /\ UNCHANGED <<engine, handles>>

\* mutant of TickRead: a read error other than a timeout ends the task
TickRead_ExitOnError(r) ==
    /\ pc = "read"
    /\ pc' = IF port = "Some" /\ r[1] = "Err" /\ r[2] # "TimedOut"
               THEN "done" ELSE "select"
    /\ IF port = "Some"
         THEN IF r[1] = "Ok"
                THEN /\ IF r[2] = <<>>
                          THEN Continue(<<>>, <<Call("read", "Ok")>>)
                          ELSE Continue(<<MessageEvt("Rx", r[2])>>, <<Call("read", "Ok")>>)
                     /\ UNCHANGED <<engine, handles>>
                ELSE ReadError(r[2])
         ELSE /\ r = <<"Ok", <<>>>>
              /\ Continue(<<>>, <<>>)
              /\ UNCHANGED <<engine, handles>>
    /\ UNCHANGED <<openable, live_at_open>>

\* mutant of TickRead: Ok(0) sends an Rx message too
TickRead_RxAlways(r) ==
    /\ pc = "read"
    /\ pc' = "select"
    /\ IF port = "Some"
         THEN IF r[1] = "Ok"
                THEN /\ Continue(<<MessageEvt("Rx", r[2])>>, <<Call("read", "Ok")>>)
                     /\ UNCHANGED <<engine, handles>>
                ELSE ReadError(r[2])
         ELSE /\ r = <<"Ok", <<>>>>
              /\ Continue(<<>>, <<>>)
              /\ UNCHANGED <<engine, handles>>
    /\ UNCHANGED <<openable, live_at_open>>

\* engine.rs:130-159: the read of the tick branch
TickRead(r) ==
    /\ pc = "read"
    /\ pc' = "select"
    /\ IF port = "Some"
         THEN IF r[1] = "Ok"
                THEN /\ IF r[2] = <<>>
                          THEN Continue(<<>>, <<Call("read", "Ok")>>)
                          ELSE Continue(<<MessageEvt("Rx", r[2])>>, <<Call("read", "Ok")>>)
                     /\ UNCHANGED <<engine, handles>>
                ELSE ReadError(r[2])
         ELSE /\ r = <<"Ok", <<>>>>
              /\ Continue(<<>>, <<>>)
              /\ UNCHANGED <<engine, handles>>
    /\ UNCHANGED <<openable, live_at_open>>

----------------
(* Environment *)

\* a device appears or disappears: changes what try_open returns
DeviceChange(p) ==
    /\ pc = "select"
    /\ openable' = IF p \in openable THEN openable \ {p} ELSE openable \cup {p}
    /\ UNCHANGED <<engine, pc, handles, events, prev_evt, reported, calls, live_at_open>>

----------------------------------------------------------------------------
(* Specification *)

\* the engine by itself: who sends the commands and who receives the events
\* is left open, the channels are not looked at
Next ==
    \/ (\E cfg \in SerialConfig : Connect(cfg)) /\ UNCHANGED <<queue_vars, other_vars>>
    \/ Disconnect /\ UNCHANGED <<queue_vars, other_vars>>
    \/ (\E bytes \in Payloads, wr \in WriteResults : SendBytes(bytes, wr))
          /\ UNCHANGED <<queue_vars, other_vars>>
    \/ Closed /\ UNCHANGED <<queue_vars, other_vars>>
    \/ (\E dt \in Elapsed : Tick(dt)) /\ UNCHANGED <<queue_vars, other_vars>>
    \/ (\E r \in ReadResults : TickRead(r)) /\ UNCHANGED <<queue_vars, other_vars>>
    \/ (\E p \in Ports : DeviceChange(p)) /\ UNCHANGED <<queue_vars, other_vars>>

Spec == Init /\ [][Next]_vars

TypeOK ==
    /\ state \in ConnectionState
    /\ desired \in {<<>>} \cup {<<c>> : c \in SerialConfig}
    /\ port \in {None, "Some"}
    /\ backoff_ms \in Nat
    /\ next_retry \in Nat
    /\ pc \in {"select", "read", "done"}
    /\ openable \subseteq Ports
    /\ handles \in Nat

----------------------------------------------------------------------------
(* Steps of the engine, named for the properties below *)

ConnectStep == \E cfg \in SerialConfig : Connect(cfg)
TickStep == \E dt \in Elapsed : Tick(dt)
ReadStep == \E r \in ReadResults : TickRead(r)
SendStep == \E bytes \in Payloads, wr \in WriteResults : SendBytes(bytes, wr)

\* a step that calls try_open, and its two outcomes
OpenAttempt == (ConnectStep \/ TickStep) /\ OpensIn(calls') > 0
OpenSucceeded == OpenAttempt /\ port' = "Some"
OpenFailed == OpenAttempt /\ port' = None

\* the backoff the spec lists after one more failure: 200, 400, 800, 1600,
\* 2000, 2000, ...
AfterFailure(b) ==
    CASE b = 200 -> 400
      [] b = 400 -> 800
      [] b = 800 -> 1600
      [] b = 1600 -> 2000
      [] b = 2000 -> 2000
      [] OTHER -> 0

----------------------------------------------------------------------------
(* Properties of the connection engine *)

\* C1: in the event stream every ConnectionState(Connected) event comes
\* right after a ConnectionState(Connecting) event, for an open made by a
\* Connect command and for one made by a retry on a tick.  (events holds the
\* events of the handler being serviced and prev_evt the event sent just
\* before them, so every event of the stream is checked with its predecessor.)
C1_ConnectedFollowsConnecting ==
    \A i \in DOMAIN events :
        events[i] = StateEvt("Connected") =>
            (IF i = 1 THEN prev_evt ELSE events[i - 1]) = StateEvt("Connecting")

\* a retry on a tick has opened the device and reported it
C1_Witness ==
    /\ pc = "read"
    /\ calls = <<Call("open", "Ok")>>
    /\ Len(events) = 3
    /\ events[2] = StateEvt("Connected")

\* C2: every failed open attempt, of a Connect command or of a retry, takes
\* backoff_ms to the next value of 200, 400, 800, 1600, 2000, 2000, ..., and
\* every successful open sets it to 200.
C2_BackoffDoublesAndResets ==
    [][ /\ OpenFailed => backoff_ms' = AfterFailure(backoff_ms)
        /\ OpenSucceeded => backoff_ms' = 200 ]_vars

\* a retry has failed with the backoff already at its ceiling
C2_Witness ==
    /\ pc = "read"
    /\ calls = <<Call("open", "Err")>>
    /\ next_retry = 2000
    /\ backoff_ms = 2000

\* C3: the open attempt of every Connect command is evaluated with a backoff
\* of 200 ms: when it fails the retry is due 200 ms later and backoff_ms is
\* left at 400.
C3_ConnectResetsBackoff ==
    [][ (ConnectStep /\ port' = None) =>
            (next_retry' = 200 /\ backoff_ms' = 400) ]_vars

\* C4: a Disconnect leaves the engine Disconnected, and from then on, until
\* a Connect command is processed, the engine stays Disconnected, calls
\* try_open in no step and sends no ConnectionState(Connecting) event.
C4_DisconnectCancelsRetries ==
    [][ /\ Disconnect => state' = "Disconnected"
        /\ (state = "Disconnected" /\ ~ConnectStep) =>
              /\ state' = "Disconnected"
              /\ OpensIn(calls') = 0
              /\ \A i \in DOMAIN events' : events'[i] # StateEvt("Connecting") ]_vars

\* a tick was serviced after a Disconnect that was processed while a retry
\* was pending (the deadline is still ahead)
C4_Witness ==
    /\ pc = "read"
    /\ state = "Disconnected"
    /\ next_retry > 0
    /\ backoff_ms > 200

\* C5: a SendBytes command processed while no handle is open writes nothing
\* to the device, sends exactly the one event Error("Not connected"), and
\* leaves desired, port, state, backoff_ms and next_retry as they were.
C5_SendWhileNotConnected ==
    [][ (SendStep /\ port = None) =>
            /\ events' = <<ErrorEvt(NotConnectedText)>>
            /\ WritesIn(calls') = 0
            /\ UNCHANGED <<desired, port, state, backoff_ms, next_retry, handles>> ]_vars

C5_Witness ==
    /\ port = None
    /\ desired # <<>>
    /\ events = <<ErrorEvt(NotConnectedText)>>

\* C6: when the write of a SendBytes command fails, the engine sends exactly
\* one Error event and no Tx message, the handle stays open, the state stays
\* Connected, and desired, backoff_ms and next_retry are unchanged.
C6_WriteFailureNotFatal ==
    [][ \A bytes \in Payloads, wr \in IoErrorKinds :
          (SendBytes(bytes, wr) /\ port = "Some") =>
              /\ events' = <<ErrorEvt(IoErrorText(wr))>>
              /\ port' = "Some"
              /\ handles' = handles
              /\ state = "Connected" /\ state' = "Connected"
              /\ UNCHANGED <<desired, backoff_ms, next_retry>> ]_vars

C6_Witness ==
    /\ port = "Some"
    /\ state = "Connected"
    /\ calls = <<Call("write", "BrokenPipe")>>
    /\ events = <<ErrorEvt(IoErrorText("BrokenPipe"))>>

\* C7: a read that fails with an error other than a timeout closes the
\* handle and sends Error(reason); with a desired config set it then sends
\* ConnectionState(Connecting), makes the retry due after the current
\* backoff and takes the backoff to its next value; with none set it goes to
\* Disconnected.
C7_ReadErrorIsLinkLoss ==
    [][ \A k \in IoErrorKinds \ {"TimedOut"} :
          (TickRead(<<"Err", k>>) /\ port = "Some") =>
              /\ port' = None
              /\ handles' = handles - 1
              /\ IF desired # <<>>
                   THEN /\ events' = events \o <<ErrorEvt(IoErrorText(k)),
                                                StateEvt("Connecting")>>
                        /\ state' = "Connecting"
                        /\ next_retry' = backoff_ms
                        /\ backoff_ms' = AfterFailure(backoff_ms)
                   ELSE /\ events' = events \o <<ErrorEvt(IoErrorText(k)),
                                                StateEvt("Disconnected")>>
                        /\ state' = "Disconnected"
                        /\ UNCHANGED <<backoff_ms, next_retry>> ]_vars

\* the read of a tick has lost the link: the retry is due after the backoff
\* the open had left (200 ms) and the backoff has doubled
C7_Witness ==
    /\ pc = "select"
    /\ port = None
    /\ state = "Connecting"
    /\ Len(calls) = 2
    /\ calls[1] = Call("read", "BrokenPipe")
    /\ events[Len(events)] = StateEvt("Connecting")
    /\ next_retry = 200
    /\ backoff_ms = 400

\* C8: a read that fails with a timeout sends no event and leaves port,
\* state, desired, backoff_ms, next_retry and the open handle as they were.
C8_ReadTimeoutIgnored ==
    [][ (TickRead(<<"Err", "TimedOut">>) /\ port = "Some") =>
            /\ events' = events
            /\ UNCHANGED <<state, desired, port, backoff_ms, next_retry, handles>> ]_vars

C8_Witness ==
    /\ pc = "select"
    /\ port = "Some"
    /\ calls # <<>>
    /\ calls[Len(calls)] = Call("read", "TimedOut")

\* C9: at most one device handle is open at any time, no handle is open
\* when try_open is called (Connect releases the old handle first), one
\* handler calls try_open at most once, and a tick serviced while a handle
\* is open calls it not at all.
C9_OneHandleOneAttempt ==
    /\ [](/\ handles = (IF port = "Some" THEN 1 ELSE 0)
          /\ live_at_open = 0
          /\ OpensIn(calls) <= 1)
    /\ [][ (TickStep /\ port = "Some") => OpensIn(calls') = 0 ]_vars

\* a Connect was processed while a handle was open
C9_Witness ==
    /\ calls = <<Call("drop", "Ok"), Call("open", "Ok")>>
    /\ port = "Some"
    /\ handles = 1

\* C10: backoff_ms is always one of 200, 400, 800, 1600, 2000; it gets
\* lower only in a step that opens the device or processes a Connect
\* command, and never in a Disconnect, a SendBytes, a read or a failed open.
C10_BackoffRange ==
    /\ [](backoff_ms \in {200, 400, 800, 1600, 2000})
    /\ [][ /\ backoff_ms' < backoff_ms => (OpenSucceeded \/ ConnectStep)
           /\ (Disconnect \/ SendStep \/ ReadStep \/ OpenFailed) =>
                 backoff_ms' >= backoff_ms ]_vars

\* a retry opened the device after failed attempts: the backoff came down
C10_Witness ==
    /\ pc = "read"
    /\ calls = <<Call("open", "Ok")>>
    /\ prev_evt[1] = "Error"
    /\ backoff_ms = 200

\* C11: processing Connect(cfg) makes cfg the desired config and calls
\* try_open with cfg in that same step, whether or not a retry deadline is
\* still ahead (the open succeeds exactly when cfg's port can be opened, and
\* the event that reports the outcome names cfg); the desired config changes
\* in no step but a Connect or a Disconnect, and every retry on a tick opens
\* the desired config.
C11_ConnectSupersedes ==
    [][ /\ \A cfg \in SerialConfig :
             Connect(cfg) =>
                 /\ desired' = <<cfg>>
                 /\ OpensIn(calls') = 1
                 /\ (port' = "Some") = (cfg.port \in openable)
                 /\ events'[Len(events')] =
                        (IF port' = "Some"
                           THEN MessageEvt("System", ConnectedText(cfg))
                           ELSE ErrorEvt(OpenFailedText(cfg)))
        /\ (TickStep /\ OpensIn(calls') > 0) =>
                 /\ desired # <<>>
                 /\ (port' = "Some") = (desired[1].port \in openable)
                 /\ events'[Len(events')] =
                        (IF port' = "Some"
                           THEN MessageEvt("System", ConnectedText(desired[1]))
                           ELSE ErrorEvt(OpenFailedText(desired[1])))
        /\ desired' # desired => (ConnectStep \/ Disconnect) ]_vars

\* a Connect with another config was processed right after the open of the
\* earlier config had failed (its retry still 200 ms or more ahead), and the
\* new config was opened at once
C11_Witness ==
    /\ pc = "select"
    /\ prev_evt = ErrorEvt(OpenFailedText([port |-> "ttyUSB0", baudrate |-> DefaultBaud]))
    /\ desired = <<[port |-> "ttyUSB1", baudrate |-> DefaultBaud]>>
    /\ calls = <<Call("open", "Ok")>>
    /\ state = "Connected"

\* C12: Disconnect is idempotent on the engine state: every Disconnect
\* leaves desired unset, no handle and state Disconnected and keeps
\* backoff_ms and next_retry, and a Disconnect processed right after a
\* Disconnect changes nothing of the engine state.
C12_DisconnectIdempotent ==
    [][ Disconnect =>
          /\ desired' = <<>> /\ port' = None /\ state' = "Disconnected"
          /\ handles' = 0
          /\ UNCHANGED <<backoff_ms, next_retry>>
          /\ (events = <<StateEvt("Disconnected")>> /\ calls = <<>> /\ desired = <<>>) =>
                UNCHANGED engine ]_vars

\* two Disconnects in a row were processed after a failed open (the second
\* one found the state the first one left)
C12_Witness ==
    /\ pc = "select"
    /\ events = <<StateEvt("Disconnected")>>
    /\ prev_evt = StateEvt("Disconnected")
    /\ state = "Disconnected"
    /\ next_retry > 0
    /\ backoff_ms > 200

----------------------------------------------------------------------------
(***************************************************************************)
(* Part 2: the engine with its two channels.                               *)
(*                                                                         *)
(* cmd_tx/cmd_rx and evt_tx/evt_rx are bounded tokio mpsc channels         *)
(* (engine.rs:29-30).  evt_tx.send(..).await suspends the handler while    *)
(* the event channel is full and returns Err, which the code drops, once   *)
(* evt_rx is gone.  A handler's assignments are private to the task, so    *)
(* the model shows them at once and keeps in outbox the events the         *)
(* handler has still to send: the task is suspended in a send exactly      *)
(* while outbox is not empty.                                              *)
(***************************************************************************)

EngineCommands ==
    {<<"Connect", cfg>> : cfg \in SerialConfig}
        \cup {<<"Disconnect">>}
        \cup {<<"SendBytes", bytes>> : bytes \in Payloads}

\* time between two services of the tick branch when handlers can be held
\* up in a send: 0 when a missed tick is caught up at once, and a stall
\* long enough for any retry to be due
Stalled == {0, BackoffCeil}

\* the events a step of a handler has added to events
NewEvents(old, new) == SubSeq(new, Len(old) + 1, Len(new))

\* mutant of Publish: an event that finds the channel full is dropped
\* (try_send) and the handler goes on
Publish_DropWhenFull(new) ==
    /\ outbox' = <<>>
    /\ IF consumer_alive
         THEN LET fit == Min(EvtCap - Len(evt_queue), Len(new))
              IN  /\ evt_queue' = evt_queue \o SubSeq(new, 1, fit)
                  /\ in_flight' = in_flight \o new
         ELSE UNCHANGED <<evt_queue, in_flight>>

\* let _ = evt_tx.send(e).await for the events of a handler, in order
\* (engine.rs:52, 59-65, 69, 80, 85, 87-94, 104, 111-117, 120, 135-140,
\* 145, 148, 154)
Publish(new) ==
    IF consumer_alive
      THEN LET fit == Min(EvtCap - Len(evt_queue), Len(new))
           IN  /\ evt_queue' = evt_queue \o SubSeq(new, 1, fit)
               /\ outbox' = SubSeq(new, fit + 1, Len(new))
               /\ in_flight' = in_flight \o new
      ELSE UNCHANGED <<evt_queue, outbox, in_flight>>

\* a caller sends a command (gui_main.rs:283-286, 318-321, 552-555)
SendCommand(c) ==
    /\ senders_alive
    /\ Len(cmd_queue) < CmdCap
    /\ cmd_queue' = Append(cmd_queue, c)
    /\ UNCHANGED <<engine_vars, senders_alive, evt_queue, outbox,
                   consumer_alive, in_flight, last_recv>>
    /\ UNCHANGED other_vars

\* the last clone of cmd_tx is dropped
DropSenders ==
    /\ senders_alive
    /\ senders_alive' = FALSE
    /\ UNCHANGED <<engine_vars, cmd_queue, evt_queue, outbox,
                   consumer_alive, in_flight, last_recv>>
    /\ UNCHANGED other_vars

\* engine.rs:45-98: the command branch of select! receives the oldest
\* command and handles it
HandleCommand ==
    /\ outbox = <<>>
    /\ cmd_queue # <<>>
    /\ LET c == Head(cmd_queue)
       IN  CASE c[1] = "Connect" -> Connect(c[2])
             [] c[1] = "Disconnect" -> Disconnect
             [] c[1] = "SendBytes" -> \E wr \in WriteResults : SendBytes(c[2], wr)
    /\ cmd_queue' = Tail(cmd_queue)
    /\ Publish(events')
    /\ UNCHANGED <<senders_alive, consumer_alive, last_recv>>
    /\ UNCHANGED other_vars

\* engine.rs:45-46: the command branch receives None: the channel is empty
\* and every sender is gone
HandleClosed ==
    /\ outbox = <<>>
    /\ cmd_queue = <<>>
    /\ ~senders_alive
    /\ Closed
    /\ UNCHANGED <<queue_vars, other_vars>>

\* engine.rs:99-128 with the channels
HandleTick(dt) ==
    /\ outbox = <<>>
    /\ Tick(dt)
    /\ Publish(events')
    /\ UNCHANGED <<cmd_queue, senders_alive, consumer_alive, last_recv>>
    /\ UNCHANGED other_vars

\* engine.rs:130-159 with the channels
HandleTickRead(r) ==
    /\ outbox = <<>>
    /\ TickRead(r)
    /\ Publish(NewEvents(events, events'))
    /\ UNCHANGED <<cmd_queue, senders_alive, consumer_alive, last_recv>>
    /\ UNCHANGED other_vars

\* a suspended evt_tx.send(..).await goes on once the channel has room
Resume ==
    /\ outbox # <<>>
    /\ consumer_alive
    /\ Len(evt_queue) < EvtCap
    /\ LET fit == Min(EvtCap - Len(evt_queue), Len(outbox))
       IN  /\ evt_queue' = evt_queue \o SubSeq(outbox, 1, fit)
           /\ outbox' = SubSeq(outbox, fit + 1, Len(outbox))
    /\ UNCHANGED <<engine_vars, cmd_queue, senders_alive, consumer_alive,
                   in_flight, last_recv>>
    /\ UNCHANGED other_vars

\* gui_main.rs:121-125: the consumer's rx.recv().await returns Some(evt)
Recv ==
    /\ consumer_alive
    /\ evt_queue # <<>>
    /\ last_recv' = Head(evt_queue)
    /\ evt_queue' = Tail(evt_queue)
    /\ in_flight' = Tail(in_flight)
    /\ UNCHANGED <<engine_vars, cmd_queue, senders_alive, outbox, consumer_alive>>
    /\ UNCHANGED other_vars

EngineStopped == ErrorEvt(<<"engine stopped">>)

\* gui_main.rs:121-130: recv() returns None once the task has ended and the
\* channel is empty; the consumer makes Error("engine stopped") of it
RecvNone ==
    /\ consumer_alive
    /\ pc = "done"
    /\ evt_queue = <<>>
    /\ last_recv' = EngineStopped
    /\ UNCHANGED <<engine_vars, cmd_queue, senders_alive, evt_queue, outbox,
                   consumer_alive, in_flight>>
    /\ UNCHANGED other_vars

\* evt_rx is dropped: what the channel held is gone, and a suspended send
\* returns Err like every send after it
DropConsumer ==
    /\ consumer_alive
    /\ consumer_alive' = FALSE
    /\ evt_queue' = <<>>
    /\ outbox' = <<>>
    /\ in_flight' = <<>>
    /\ UNCHANGED <<engine_vars, cmd_queue, senders_alive, last_recv>>
    /\ UNCHANGED other_vars

NextQ ==
    \/ \E c \in EngineCommands : SendCommand(c)
    \/ DropSenders
    \/ HandleCommand
    \/ HandleClosed
    \/ \E dt \in Stalled : HandleTick(dt)
    \/ \E r \in ReadResults : HandleTickRead(r)
    \/ Resume
    \/ Recv
    \/ RecvNone
    \/ DropConsumer
    \/ (\E p \in Ports : DeviceChange(p)) /\ UNCHANGED <<queue_vars, other_vars>>

SpecQ == Init /\ [][NextQ]_vars

----------------------------------------------------------------------------
(* Properties of the engine with its channels *)

\* the task is suspended in evt_tx.send(..).await and only the consumer can
\* let it go on
HeldBySend == outbox # <<>> /\ consumer_alive /\ Len(evt_queue) = EvtCap

HandlerStep ==
    \/ HandleCommand
    \/ \E dt \in Stalled : HandleTick(dt)
    \/ \E r \in ReadResults : HandleTickRead(r)

\* C13: once every command sender is dropped the task ends, whatever state
\* it is in.  Stated for finite runs: with the senders dropped and the task
\* still in its loop, the task is never held where no step of its own can
\* bring it to the end of the loop.
C13_CanAlwaysReachTheEnd ==
    (~senders_alive /\ pc # "done") => ~HeldBySend

\* C14: no error ends the task.  The loop is left only on a closed and
\* empty command channel; a handler, whatever its device calls and its
\* sends returned, leaves the task in its loop; and with the consumer gone
\* no send holds the task.
C14_OnlyCloseEndsTheTask ==
    /\ [](~consumer_alive => outbox = <<>>)
    /\ [][/\ (pc # "done" /\ pc' = "done") => (~senders_alive /\ cmd_queue = <<>>)
          /\ HandlerStep => pc' \in {"select", "read"}]_vars

\* a read failed with the consumer gone and the task is back at its select
C14_Witness ==
    /\ pc = "select"
    /\ ~consumer_alive
    /\ senders_alive
    /\ \E i \in 1..Len(calls) : calls[i] = Call("read", "BrokenPipe")

\* C15: handling a command or a tick never blocks on publishing an event:
\* the task is never suspended in a send.
C15_NeverSuspendedInSend == outbox = <<>>

\* C16: events reach the consumer in the order the engine emitted them,
\* none lost, none twice: what is emitted and not yet received is what the
\* channel and the pending sends hold, in that order, and every receive
\* returns the oldest of it.
C16_EventsInEmissionOrder ==
    /\ [](consumer_alive => in_flight = evt_queue \o outbox)
    /\ [][Recv => /\ last_recv' = Head(in_flight)
                  /\ in_flight' = Tail(in_flight)]_vars

\* three events emitted and not yet received, one of them behind a full
\* channel, and the consumer has received before
C16_Witness ==
    /\ consumer_alive
    /\ Len(in_flight) >= 3
    /\ outbox # <<>>
    /\ last_recv # NoEvent

\* C36: the first event the engine emits is ConnectionState(Disconnected):
\* it is in the channel, alone, before any command or tick is serviced;
\* as long as the consumer has received nothing it is the oldest event
\* emitted; and it is what the consumer's first receive returns.
C36_FirstEventIsDisconnected ==
    /\ (in_flight = <<StateEvt("Disconnected")>> /\ calls = <<>> /\ pc = "select")
    /\ []((consumer_alive /\ last_recv = NoEvent) =>
             (in_flight # <<>> /\ in_flight[1] = StateEvt("Disconnected")))
    /\ [][(Recv /\ last_recv = NoEvent) => last_recv' = StateEvt("Disconnected")]_vars

\* a Connect was handled before the consumer has received anything: its
\* events wait behind the first one
C36_Witness ==
    /\ consumer_alive
    /\ last_recv = NoEvent
    /\ Len(in_flight) >= 3
    /\ in_flight[2] = StateEvt("Connecting")
    /\ OpensIn(calls) = 1

----------------------------------------------------------------------------
(***************************************************************************)
(* Part 3: the fan-out channel (infra::mpmc::Channel).                     *)
(*                                                                         *)
(* The module infra::mpmc is not among the sources; only its callers are   *)
(* (main.rs:84-139, gui/app.rs:113-127, 246-253, 536-547).  The channel    *)
(* is modelled from its description: one stream of items to which          *)
(* producers append, one backlog ("cursor") per consumer starting at the   *)
(* consumer's creation, a bounded backlog per consumer, and an overflow    *)
(* policy the implementation picks: drop the oldest item or refuse the     *)
(* new one.  An item is <<producer, n>>: the n-th item of that producer.   *)
(***************************************************************************)

FanPolicies == {"drop_oldest", "reject_new"}

FanItems == {<<p, n>> : p \in FanProducers, n \in 1..MaxPublish}

\* mutant of Deliver: the newest item is put in front of the backlog
Deliver_NewestFirst(backlog, item) ==
    IF Len(backlog) < FanCap
      THEN <<item>> \o backlog
      ELSE IF fan_policy = "drop_oldest"
             THEN <<item>> \o SubSeq(backlog, 1, Len(backlog) - 1)
             ELSE backlog

\* an item reaches the backlog of one consumer
Deliver(backlog, item) ==
    IF Len(backlog) < FanCap
      THEN Append(backlog, item)
      ELSE IF fan_policy = "drop_oldest"
             THEN Append(Tail(backlog), item)
             ELSE backlog

\* the last n items of a sequence
LastN(seq, n) == SubSeq(seq, Len(seq) - Min(n, Len(seq)) + 1, Len(seq))

\* mutant of new_consumer: the new consumer is handed the history
new_consumer_Replay(c) ==
    /\ c \notin fan_consumers
    /\ fan_consumers' = fan_consumers \cup {c}
    /\ fan_joined' = [fan_joined EXCEPT ![c] = Len(fan_stream)]
    /\ fan_backlog' = [fan_backlog EXCEPT ![c] = LastN(fan_stream, FanCap)]
    /\ UNCHANGED <<fan_policy, fan_published, fan_stream, fan_seen, fan_lost, fan_last>>
    /\ UNCHANGED <<engine_vars, queue_vars, mux_vars, fmt_vars, gui_vars>>

\* Channel::new_consumer (main.rs:87-92, gui/app.rs:117-121)
new_consumer(c) ==
    /\ c \notin fan_consumers
    /\ fan_consumers' = fan_consumers \cup {c}
    /\ fan_joined' = [fan_joined EXCEPT ![c] = Len(fan_stream)]
    /\ fan_backlog' = [fan_backlog EXCEPT ![c] = <<>>]
    /\ UNCHANGED <<fan_policy, fan_published, fan_stream, fan_seen, fan_lost, fan_last>>
    /\ UNCHANGED <<engine_vars, queue_vars, mux_vars, fmt_vars, gui_vars>>

\* mutant of produce: the item reaches one of the existing consumers only
produce_ToOne(p) ==
    /\ fan_published[p] < MaxPublish
    /\ LET item == <<p, fan_published[p] + 1>>
           one == IF fan_consumers = {} THEN {}
                  ELSE {CHOOSE c \in fan_consumers : TRUE}
       IN  /\ fan_published' = [fan_published EXCEPT ![p] = @ + 1]
           /\ fan_stream' = Append(fan_stream, item)
           /\ fan_backlog' = [c \in FanConsumers |->
                                IF c \in one
                                  THEN Deliver(fan_backlog[c], item)
                                  ELSE fan_backlog[c]]
           /\ fan_lost' = [c \in FanConsumers |->
                             fan_lost[c] \/ (c \in one /\ Len(fan_backlog[c]) = FanCap)]
    /\ UNCHANGED <<fan_policy, fan_consumers, fan_joined, fan_seen, fan_last>>
    /\ UNCHANGED <<engine_vars, queue_vars, mux_vars, fmt_vars, gui_vars>>

\* Producer::produce by the handle p (gui/app.rs:246-253): the item is
\* appended to the stream and reaches every existing consumer
produce(p) ==
    /\ fan_published[p] < MaxPublish
    /\ LET item == <<p, fan_published[p] + 1>>
       IN  /\ fan_published' = [fan_published EXCEPT ![p] = @ + 1]
           /\ fan_stream' = Append(fan_stream, item)
           /\ fan_backlog' = [c \in FanConsumers |->
                                IF c \in fan_consumers
                                  THEN Deliver(fan_backlog[c], item)
                                  ELSE fan_backlog[c]]
           /\ fan_lost' = [c \in FanConsumers |->
                             fan_lost[c] \/ (c \in fan_consumers
                                               /\ Len(fan_backlog[c]) = FanCap)]
    /\ UNCHANGED <<fan_policy, fan_consumers, fan_joined, fan_seen, fan_last>>
    /\ UNCHANGED <<engine_vars, queue_vars, mux_vars, fmt_vars, gui_vars>>

\* Consumer::try_recv (gui/app.rs:536-547): the next unseen item, or none
try_recv(c) ==
    /\ c \in fan_consumers
    /\ IF fan_backlog[c] # <<>>
         THEN /\ fan_last' = [fan_last EXCEPT ![c] = Head(fan_backlog[c])]
              /\ fan_seen' = [fan_seen EXCEPT ![c] = Append(@, Head(fan_backlog[c]))]
              /\ fan_backlog' = [fan_backlog EXCEPT ![c] = Tail(@)]
         ELSE /\ fan_last' = [fan_last EXCEPT ![c] = NoItem]
              /\ UNCHANGED <<fan_seen, fan_backlog>>
    /\ UNCHANGED <<fan_policy, fan_consumers, fan_published, fan_stream,
                   fan_joined, fan_lost>>
    /\ UNCHANGED <<engine_vars, queue_vars, mux_vars, fmt_vars, gui_vars>>

\* the rest of the program is idle
InitFan ==
    /\ EngineInit /\ openable = {}
    /\ QueuesInit
    /\ FanIdle /\ fan_policy \in FanPolicies
    /\ MuxIdle
    /\ FmtIdle
    /\ HistIdle
    /\ ViewIdle

NextFan ==
    \/ \E c \in FanConsumers : new_consumer(c)
    \/ \E p \in FanProducers : produce(p)
    \/ \E c \in FanConsumers : try_recv(c)

SpecFan == InitFan /\ [][NextFan]_vars

IsPrefix(s, t) == Len(s) <= Len(t) /\ SubSeq(t, 1, Len(s)) = s

\* created before anything was published
Early(c) == c \in fan_consumers /\ fan_joined[c] = 0

SameSoFar(c, d) ==
    \/ IsPrefix(fan_seen[c], fan_seen[d])
    \/ IsPrefix(fan_seen[d], fan_seen[c])

\* C17 as stated: two consumers registered before any item is produced
\* observe the identical sequence in the identical order, however their
\* try_recv calls interleave: at any time what one has observed is the
\* beginning of what the other has observed.
C17_IdenticalSequences ==
    \A c, d \in FanConsumers : (Early(c) /\ Early(d)) => SameSoFar(c, d)

\* C17 amended: the same, as long as neither backlog has overflowed; and
\* once both have received everything the two sequences are equal and are
\* the stream.
C17_IdenticalWithoutOverflow ==
    \A c, d \in FanConsumers :
        (Early(c) /\ Early(d) /\ ~fan_lost[c] /\ ~fan_lost[d]) =>
            /\ SameSoFar(c, d)
            /\ (fan_backlog[c] = <<>> /\ fan_backlog[d] = <<>>) =>
                   (fan_seen[c] = fan_stream /\ fan_seen[d] = fan_stream)

\* both registered first, neither overflowed, both have observed the same
\* items of two producers, and c1 has since polled an empty backlog
C17_Witness ==
    /\ Early("c1") /\ Early("c2")
    /\ ~fan_lost["c1"] /\ ~fan_lost["c2"]
    /\ Len(fan_seen["c1"]) >= 2
    /\ fan_seen["c1"] = fan_seen["c2"]
    /\ fan_seen["c1"][1][1] # fan_seen["c1"][2][1]
    /\ fan_last["c1"] = NoItem

\* C18: a consumer registered after N items were produced observes none of
\* them, only items produced after its registration.
C18_LateConsumerSeesOnlyLater ==
    \A c \in fan_consumers :
        \A i \in 1..Len(fan_seen[c]) :
            /\ \A j \in 1..fan_joined[c] : fan_seen[c][i] # fan_stream[j]
            /\ \E j \in (fan_joined[c] + 1)..Len(fan_stream) :
                   fan_seen[c][i] = fan_stream[j]

C18_Witness ==
    \E c \in fan_consumers : fan_joined[c] >= 1 /\ fan_seen[c] # <<>>

\* C19: every consumer observes the items of one producer in the order
\* that producer published them, also when producers publish in turn.
C19_PerProducerOrder ==
    \A c \in fan_consumers :
        \A i, j \in 1..Len(fan_seen[c]) :
            (i < j /\ fan_seen[c][i][1] = fan_seen[c][j][1]) =>
                fan_seen[c][i][2] < fan_seen[c][j][2]

\* a consumer observed two items of one producer with one of the other
\* producer between them
C19_Witness ==
    \E c \in fan_consumers :
        /\ Len(fan_seen[c]) >= 3
        /\ fan_seen[c][1][1] = fan_seen[c][3][1]
        /\ fan_seen[c][1][1] # fan_seen[c][2][1]

----------------------------------------------------------------------------
(* Part 4: the mux frame encoder (gui/terminal_view.rs:78-105) *)

\* data.len() of the payloads tried: around 0 and around MAX_DATA_LEN
MuxLens == (0..Slack) \cup ((MAX_DATA_LEN - Slack)..(MAX_DATA_LEN + Slack))
MuxFill == {0, 65, 255}
MuxLinks == {0, 1, 6, 127, 128, 255}
\* payloads of one repeated byte, and payloads counting up from a byte
MuxPayloads ==
    {[i \in 1..n |-> b] : n \in MuxLens, b \in MuxFill}
        \cup {[i \in 1..n |-> (b + i) % 256] : n \in MuxLens, b \in MuxFill}

\* a ^ b on w-bit values, bit by bit
RECURSIVE Xor(_, _, _)
Xor(a, b, w) ==
    IF w = 0 THEN 0
    ELSE (((a % 2) + (b % 2)) % 2) + 2 * Xor(a \div 2, b \div 2, w - 1)

\* a | b on w-bit values, bit by bit
RECURSIVE Or(_, _, _)
Or(a, b, w) ==
    IF w = 0 THEN 0
    ELSE (IF a % 2 = 1 \/ b % 2 = 1 THEN 1 ELSE 0) + 2 * Or(a \div 2, b \div 2, w - 1)

\* mutant of encode_mux_frame: the payload is not cut at MAX_DATA_LEN
encode_mux_frame_NoClamp(data, link_id) ==
    LET data_len == Len(data)
        flags == 0
        length_field == Or((flags * 1024) % 65536, (data_len % 65536) % 1024, 16)
    IN  <<SOF, link_id, (length_field \div 256) % 256, length_field % 256>>
            \o SubSeq(data, 1, data_len)
            \o <<Xor(link_id, 255, 8)>>

\* mutant of encode_mux_frame: the length field is packed little-endian
encode_mux_frame_LittleEndian(data, link_id) ==
    LET data_len == Min(Len(data), MAX_DATA_LEN)
        flags == 0
        length_field == Or((flags * 1024) % 65536, (data_len % 65536) % 1024, 16)
    IN  <<SOF, link_id, length_field % 256, (length_field \div 256) % 256>>
            \o SubSeq(data, 1, data_len)
            \o <<Xor(link_id, 255, 8)>>

\* terminal_view.rs:78-105
encode_mux_frame(data, link_id) ==
    LET data_len == Min(Len(data), MAX_DATA_LEN)
        flags == 0
        length_field == Or((flags * 1024) % 65536, (data_len % 65536) % 1024, 16)
    IN  <<SOF, link_id, (length_field \div 256) % 256, length_field % 256>>
            \o SubSeq(data, 1, data_len)
            \o <<Xor(link_id, 255, 8)>>

\* gui/app.rs:235, 266: a payload is framed for the current link
Encode(data, link_id) ==
    /\ mux_data' = data
    /\ mux_link' = link_id
    /\ mux_frame' = encode_mux_frame(data, link_id)
    /\ UNCHANGED <<engine_vars, queue_vars, fan_vars, fmt_vars, gui_vars>>

NextMux == \E data \in MuxPayloads, link_id \in MuxLinks : Encode(data, link_id)

SpecMux == Init /\ [][NextMux]_vars

\* C20: the frame has length 5 + min(len(data), 1023), starts with 0xBF and
\* the link id, and ends with the complement of the link id.
C20_FrameShape ==
    mux_frame # <<>> =>
        /\ Len(mux_frame) = 5 + (IF Len(mux_data) < 1023 THEN Len(mux_data) ELSE 1023)
        /\ mux_frame[1] = 191
        /\ mux_frame[2] = mux_link
        /\ mux_frame[Len(mux_frame)] = 255 - mux_link
        /\ mux_frame[Len(mux_frame)] + mux_frame[2] = 255

\* a payload longer than 1023 bytes was framed for a link id with mixed bits
C20_Witness ==
    /\ Len(mux_data) > 1023
    /\ mux_link = 6
    /\ Len(mux_frame) = 1028

\* C21: bytes 2 and 3 of the frame are the big-endian 16-bit value whose
\* top 6 bits are zero and whose low 10 bits are n = min(len(data), 1023);
\* the n bytes that follow are the first n payload bytes in order; the
\* empty payload on link 0xFF gives [0xBF, 0xFF, 0, 0, 0].
C21_LengthFieldAndData ==
    mux_frame # <<>> =>
        LET n == IF Len(mux_data) < 1023 THEN Len(mux_data) ELSE 1023
            field == mux_frame[3] * 256 + mux_frame[4]
        IN  /\ mux_frame[3] \in 0..255
            /\ mux_frame[4] \in 0..255
            /\ field \div 1024 = 0
            /\ field % 1024 = n
            /\ \A i \in 1..n : mux_frame[4 + i] = mux_data[i]
            /\ (mux_data = <<>> /\ mux_link = 255) =>
                   mux_frame = <<191, 255, 0, 0, 0>>

\* a counting payload longer than 1023 bytes was framed: length bytes 3, 255
C21_Witness ==
    /\ Len(mux_data) > 1023
    /\ mux_data[1] # mux_data[2]
    /\ mux_frame # <<>>
    /\ mux_frame[3] = 3
    /\ mux_frame[4] = 255
    /\ mux_frame[6] = mux_data[2]

----------------------------------------------------------------------------
(***************************************************************************)
(* Part 5: the byte formatters (crates/scope-core/src/format.rs).          *)
(*                                                                         *)
(* A String is the sequence of its characters' code points; every          *)
(* character the formatters write is ASCII.                                *)
(***************************************************************************)

AnsiColor == {"Reset", "Black", "Red", "Green", "Yellow", "Blue", "Magenta",
              "Cyan", "White", "DarkGray", "LightGreen"}

\* format.rs:69, 177: 0x20..=0x7E
IsPrintable(b) == b \in 32..126

\* one digit of {:02x}
HexDigit(d) == IF d < 10 THEN 48 + d ELSE 87 + d

\* format.rs:74, 81, 88, 96 (and 182, 191, 192, 195): what one byte adds to
\* the buffer
Pushed(b) ==
    IF IsPrintable(b) THEN <<b>>
    ELSE IF b = 10 THEN <<92, 110>>
    ELSE IF b = 13 THEN <<92, 114>>
    ELSE <<92, 120, HexDigit(b \div 16), HexDigit(b % 16)>>

\* mutant of flush: the buffer is pushed whether empty or not
flush_Always(out, buf, kind) == Append(out, [text |-> buf, kind |-> kind])

\* format.rs:58-65
flush(out, buf, kind) ==
    IF buf # <<>> THEN Append(out, [text |-> buf, kind |-> kind]) ELSE out

\* mutant of MixedByte: what was buffered is dropped when the kind changes
MixedByte_DropOnChange(st, b) ==
    LET k == IF IsPrintable(b) THEN "Plain" ELSE "Escape"
    IN  IF st.kind # k
          THEN [out |-> st.out, buf |-> Pushed(b), kind |-> k]
          ELSE [st EXCEPT !.buf = @ \o Pushed(b)]

\* format.rs:68-98: one turn of the loop
MixedByte(st, b) ==
    LET k == IF IsPrintable(b) THEN "Plain" ELSE "Escape"
    IN  IF st.kind # k
          THEN [out |-> flush(st.out, st.buf, st.kind), buf |-> Pushed(b), kind |-> k]
          ELSE [st EXCEPT !.buf = @ \o Pushed(b)]

RECURSIVE MixedLoop(_, _, _)
MixedLoop(st, bytes, i) ==
    IF i > Len(bytes) THEN st ELSE MixedLoop(MixedByte(st, bytes[i]), bytes, i + 1)

\* format.rs:52-103
bytes_to_mixed_segments(bytes) ==
    LET st == MixedLoop([out |-> <<>>, buf |-> <<>>, kind |-> "Plain"], bytes, 1)
    IN  flush(st.out, st.buf, st.kind)

RECURSIVE Texts(_, _)
Texts(segs, i) ==
    IF i > Len(segs) THEN <<>> ELSE segs[i].text \o Texts(segs, i + 1)

\* format.rs:7-12
bytes_to_mixed_ascii(bytes) == Texts(bytes_to_mixed_segments(bytes), 1)

\* format.rs:165-173
flush_styled(out, buf, kind, color) ==
    IF buf # <<>>
      THEN Append(out, [text |-> buf, kind |-> kind, color |-> color])
      ELSE out

\* mutant of accent_color: the accent is Yellow under every color
accent_color_AlwaysYellow(color) == "Yellow"

\* format.rs:159-163
accent_color(color) == IF color = "Yellow" THEN "DarkGray" ELSE "Yellow"

\* format.rs:175-200: one turn of the loop
StringByte(st, x, color) ==
    IF IsPrintable(x)
      THEN IF ~st.in_plain_text
             THEN [output |-> flush_styled(st.output, st.buffer, "Escape",
                                           accent_color(color)),
                   buffer |-> Pushed(x), in_plain_text |-> TRUE]
             ELSE [st EXCEPT !.buffer = @ \o Pushed(x)]
      ELSE IF st.in_plain_text
             THEN [output |-> flush_styled(st.output, st.buffer, "Plain", color),
                   buffer |-> Pushed(x), in_plain_text |-> FALSE]
             ELSE [st EXCEPT !.buffer = @ \o Pushed(x)]

RECURSIVE StringLoop(_, _, _, _)
StringLoop(st, msg, i, color) ==
    IF i > Len(msg) THEN st
    ELSE StringLoop(StringByte(st, msg[i], color), msg, i + 1, color)

\* mutant of bytes_to_string_segments: what is left in the buffer at the
\* end is pushed as Plain text in the active color
bytes_to_string_segments_FinalPlain(msg, color) ==
    LET st == StringLoop([output |-> <<>>, buffer |-> <<>>, in_plain_text |-> TRUE],
                         msg, 1, color)
    IN  IF st.buffer # <<>>
          THEN Append(st.output, [text |-> st.buffer, kind |-> "Plain", color |-> color])
          ELSE st.output

\* format.rs:155-217
bytes_to_string_segments(msg, color) ==
    LET st == StringLoop([output |-> <<>>, buffer |-> <<>>, in_plain_text |-> TRUE],
                         msg, 1, color)
    IN  IF st.buffer # <<>>
          THEN Append(st.output,
                      [text |-> st.buffer,
                       kind |-> IF st.in_plain_text THEN "Plain" ELSE "Escape",
                       color |-> IF st.in_plain_text THEN color ELSE accent_color(color)])
          ELSE st.output

\* haystack[i..i + needle.len()] == needle, i counted from 1
MatchAt(haystack, needle, i) ==
    /\ i + Len(needle) - 1 <= Len(haystack)
    /\ SubSeq(haystack, i, i + Len(needle) - 1) = needle

\* format.rs:219-223
contains(haystack, needle) ==
    \E i \in 1..(Len(haystack) - Len(needle) + 1) : MatchAt(haystack, needle, i)

\* format.rs:229-239: the loop from index i (counted from 1) on
RECURSIVE ReplaceFrom(_, _, _, _, _)
ReplaceFrom(haystack, needle, replacement, i, result) ==
    IF i + Len(needle) - 1 <= Len(haystack)
      THEN IF SubSeq(haystack, i, i + Len(needle) - 1) = needle
             THEN ReplaceFrom(haystack, needle, replacement, i + Len(needle),
                              result \o replacement)
             ELSE ReplaceFrom(haystack, needle, replacement, i + 1,
                              Append(result, haystack[i]))
      ELSE result \o SubSeq(haystack, i, Len(haystack))

\* format.rs:225-241
replace_all(haystack, needle, replacement) ==
    ReplaceFrom(haystack, needle, replacement, 1, <<>>)

ESC == 27

\* format.rs:106-119, in the order of the table
patterns ==
    << <<<<ESC, 91, 48, 109>>, "Reset">>,
       <<<<ESC, 91, 51, 48, 109>>, "Black">>,
       <<<<ESC, 91, 51, 49, 109>>, "Red">>,
       <<<<ESC, 91, 49, 59, 51, 49, 109>>, "Red">>,
       <<<<ESC, 91, 51, 50, 109>>, "Green">>,
       <<<<ESC, 91, 49, 59, 51, 50, 109>>, "Green">>,
       <<<<ESC, 91, 51, 51, 109>>, "Yellow">>,
       <<<<ESC, 91, 49, 59, 51, 51, 109>>, "Yellow">>,
       <<<<ESC, 91, 51, 52, 109>>, "Blue">>,
       <<<<ESC, 91, 51, 53, 109>>, "Magenta">>,
       <<<<ESC, 91, 51, 54, 109>>, "Cyan">>,
       <<<<ESC, 91, 51, 55, 109>>, "White">> >>

\* format.rs:122-124: ESC[m, ESC[8D, ESC[J, in the order they are removed
Stripped == << <<ESC, 91, 109>>, <<ESC, 91, 56, 68>>, <<ESC, 91, 74>> >>

\* format.rs:121-124
StripPhase(bytes) ==
    replace_all(replace_all(replace_all(bytes, Stripped[1], <<>>),
                            Stripped[2], <<>>),
                Stripped[3], <<>>)

\* the rows of the table found in the buffer
Found(buffer) == {k \in 1..Len(patterns) : contains(buffer, patterns[k][1])}

\* as many times the color as there are segments
Repeat(color, segs) == [i \in 1..Len(segs) |-> color]

\* mutant of AnsiByte: the buffered bytes are emitted with the new color
AnsiByte_NewColorFirst(st, byte) ==
    LET buffer == Append(st.buffer, byte)
    IN  IF byte # 109 \/ Found(buffer) = {}
          THEN [st EXCEPT !.buffer = buffer]
          ELSE LET k == CHOOSE k \in Found(buffer) : \A j \in Found(buffer) : k <= j
                   cleaned == replace_all(buffer, patterns[k][1], <<>>)
                   segs == bytes_to_string_segments(cleaned, patterns[k][2])
               IN  [output |-> st.output \o segs,
                    buffer |-> <<>>,
                    color |-> patterns[k][2],
                    active |-> st.active \o Repeat(patterns[k][2], segs)]

\* format.rs:130-146: one turn of the loop; active records the value of
\* color under which each segment is emitted
AnsiByte(st, byte) ==
    LET buffer == Append(st.buffer, byte)
    IN  IF byte # 109 \/ Found(buffer) = {}
          THEN [st EXCEPT !.buffer = buffer]
          ELSE LET k == CHOOSE k \in Found(buffer) : \A j \in Found(buffer) : k <= j
                   cleaned == replace_all(buffer, patterns[k][1], <<>>)
                   segs == bytes_to_string_segments(cleaned, st.color)
               IN  [output |-> st.output \o segs,
                    buffer |-> <<>>,
                    color |-> patterns[k][2],
                    active |-> st.active \o Repeat(st.color, segs)]

RECURSIVE AnsiLoop(_, _, _)
AnsiLoop(st, msg, i) ==
    IF i > Len(msg) THEN st ELSE AnsiLoop(AnsiByte(st, msg[i]), msg, i + 1)

\* format.rs:126-152 on the stripped msg: the segments and, for each of
\* them, the color that was active
AnsiScan(msg) ==
    LET st == AnsiLoop([output |-> <<>>, buffer |-> <<>>, color |-> "Reset",
                        active |-> <<>>], msg, 1)
        segs == bytes_to_string_segments(st.buffer, st.color)
    IN  IF st.buffer # <<>>
          THEN [output |-> st.output \o segs,
                active |-> st.active \o Repeat(st.color, segs)]
          ELSE [output |-> st.output, active |-> st.active]

\* format.rs:105-153
bytes_to_ansi_segments(bytes) == AnsiScan(StripPhase(bytes)).output

----------------
(* Inputs and calls *)

\* bytes of every class: printable (also both ends of the range), \n, \r,
\* and others below, between and above
MixedBytes == {65, 32, 126, 10, 13, 0, 31, 127, 255}

MixedInputs == SeqsUpTo(MixedBytes, FmtLen)

\* pieces of an input of bytes_to_ansi_segments: rows of the table, the
\* sequences of the strip phase, and fragments they can be formed from
AnsiTokens ==
    {patterns[1][1], patterns[3][1], patterns[4][1], patterns[7][1],
     patterns[12][1]}
        \cup {Stripped[1], Stripped[2], Stripped[3]}
        \cup {<<ESC, 91>>, <<51>>, <<109>>, <<65>>, <<10>>}

RECURSIVE Flat(_, _)
Flat(pieces, i) ==
    IF i > Len(pieces) THEN <<>> ELSE pieces[i] \o Flat(pieces, i + 1)

AnsiInputs == {Flat(ps, 1) : ps \in SeqsUpTo(AnsiTokens, AnsiPieces)}

\* a caller formats bytes with the mixed view; the functions are pure,
\* so one call is looked at in each behaviour
Mixed(bytes) ==
    /\ fmt_op = "none"
    /\ fmt_op' = "mixed"
    /\ fmt_bytes' = bytes
    /\ fmt_segments' = bytes_to_mixed_segments(bytes)
    /\ fmt_text' = bytes_to_mixed_ascii(bytes)
    /\ fmt_scanned' = <<>>
    /\ fmt_active' = <<>>
    /\ UNCHANGED <<engine_vars, queue_vars, fan_vars, mux_vars, gui_vars>>

\* a caller formats bytes with the ANSI view
Ansi(bytes) ==
    /\ fmt_op = "none"
    /\ fmt_op' = "ansi"
    /\ fmt_bytes' = bytes
    /\ fmt_segments' = bytes_to_ansi_segments(bytes)
    /\ fmt_text' = <<>>
    /\ fmt_scanned' = StripPhase(bytes)
    /\ fmt_active' = AnsiScan(StripPhase(bytes)).active
    /\ UNCHANGED <<engine_vars, queue_vars, fan_vars, mux_vars, gui_vars>>

\* (the inputs are drawn only where a call can be made)
NextFmt ==
    \/ fmt_op = "none" /\ \E bytes \in MixedInputs : Mixed(bytes)
    \/ fmt_op = "none" /\ \E bytes \in AnsiInputs \cup MixedInputs : Ansi(bytes)

\* the rest of the program is idle
InitFmt == Init /\ openable = {}

SpecFmt == InitFmt /\ [][NextFmt]_vars

----------------
(* Properties of the formatters *)

\* the rule of the mixed view for one byte: printable ASCII as itself, 0x0A
\* as \n, 0x0D as \r, any other byte as \x and two lowercase hex digits
HexChars == <<48, 49, 50, 51, 52, 53, 54, 55, 56, 57, 97, 98, 99, 100, 101, 102>>

Substituted(b) ==
    CASE b >= 32 /\ b <= 126 -> <<b>>
      [] b = 10 -> <<92, 110>>
      [] b = 13 -> <<92, 114>>
      [] OTHER -> <<92, 120, HexChars[(b \div 16) + 1], HexChars[(b % 16) + 1]>>

RECURSIVE SubstitutedAll(_, _)
SubstitutedAll(bytes, i) ==
    IF i > Len(bytes) THEN <<>> ELSE Substituted(bytes[i]) \o SubstitutedAll(bytes, i + 1)

\* C22: the segment texts of bytes_to_mixed_segments, concatenated, and
\* bytes_to_mixed_ascii are the per-byte substitution of the input, in
\* input order.
C22_MixedIsPerByteSubstitution ==
    fmt_op = "mixed" =>
        /\ Texts(fmt_segments, 1) = SubstitutedAll(fmt_bytes, 1)
        /\ fmt_text = SubstitutedAll(fmt_bytes, 1)

\* \n, A, 0xff: three segments, text \nA\xff
C22_Witness ==
    /\ fmt_op = "mixed"
    /\ fmt_bytes = <<10, 65, 255>>
    /\ Len(fmt_segments) = 3
    /\ fmt_text = <<92, 110, 65, 92, 120, 102, 102>>

KindOf(b) == IF b >= 32 /\ b <= 126 THEN "Plain" ELSE "Escape"

\* where the maximal runs of one kind start
RunStarts(bytes) ==
    {i \in 1..Len(bytes) : i = 1 \/ KindOf(bytes[i]) # KindOf(bytes[i - 1])}

\* the k-th of them, and the first index past the k-th run
RunStart(bytes, k) ==
    CHOOSE i \in RunStarts(bytes) :
        Cardinality({j \in RunStarts(bytes) : j <= i}) = k

RunStop(bytes, k) ==
    IF k = Cardinality(RunStarts(bytes)) THEN Len(bytes) + 1 ELSE RunStart(bytes, k + 1)

\* C23: the segments are non-empty, adjacent segments differ in kind, and
\* the k-th segment holds the k-th maximal run of printable (Plain) or of
\* non-printable (Escape) bytes of the input.
C23_SegmentsAreMaximalRuns ==
    fmt_op = "mixed" =>
        /\ \A k \in 1..Len(fmt_segments) : fmt_segments[k].text # <<>>
        /\ \A k \in 1..(Len(fmt_segments) - 1) :
               fmt_segments[k].kind # fmt_segments[k + 1].kind
        /\ Len(fmt_segments) = Cardinality(RunStarts(fmt_bytes))
        /\ \A k \in 1..Len(fmt_segments) :
               LET run == SubSeq(fmt_bytes, RunStart(fmt_bytes, k),
                                 RunStop(fmt_bytes, k) - 1)
               IN  /\ fmt_segments[k].kind = KindOf(run[1])
                   /\ fmt_segments[k].text = SubstitutedAll(run, 1)

\* an input that starts with two non-printable bytes and has two runs
C23_Witness ==
    /\ fmt_op = "mixed"
    /\ fmt_bytes = <<0, 10, 65>>
    /\ Len(fmt_segments) = 2
    /\ fmt_segments[1].kind = "Escape"
    /\ fmt_segments[2].kind = "Plain"

\* the characters of the segments, each with the color that was active
\* when its segment was emitted
RECURSIVE CharsWithActive(_, _, _)
CharsWithActive(segs, active, k) ==
    IF k > Len(segs) THEN <<>>
    ELSE [i \in 1..Len(segs[k].text) |-> <<segs[k].text[i], active[k]>>]
             \o CharsWithActive(segs, active, k + 1)

\* rows of the table that start at index i of msg
RowsAt(msg, i) ==
    {k \in 1..Len(patterns) :
        /\ i + Len(patterns[k][1]) - 1 <= Len(msg)
        /\ \A j \in 1..Len(patterns[k][1]) : msg[i + j - 1] = patterns[k][1][j]}

\* msg read from index i under a color: a sequence of the table gives no
\* text and sets the color, any other byte gives its substitution under
\* the color
RECURSIVE Colored(_, _, _)
Colored(msg, i, color) ==
    IF i > Len(msg) THEN <<>>
    ELSE IF RowsAt(msg, i) # {}
      THEN LET k == CHOOSE k \in RowsAt(msg, i) : TRUE
           IN  Colored(msg, i + Len(patterns[k][1]), patterns[k][2])
      ELSE [j \in 1..Len(Substituted(msg[i])) |-> <<Substituted(msg[i])[j], color>>]
               \o Colored(msg, i + 1, color)

\* C24: in bytes_to_ansi_segments a recognized sequence contributes no
\* text, what precedes it is emitted under the color active before it, and
\* what follows, up to the next recognized sequence, under the matched
\* color; the first active color is Reset.
C24_ColorChangesAtSequences ==
    fmt_op = "ansi" =>
        /\ Len(fmt_active) = Len(fmt_segments)
        /\ CharsWithActive(fmt_segments, fmt_active, 1) = Colored(fmt_scanned, 1, "Reset")

\* A, ESC[31m, A: one A under Reset and one under Red
C24_Witness ==
    /\ fmt_op = "ansi"
    /\ fmt_bytes = <<65, 27, 91, 51, 49, 109, 65>>
    /\ Len(fmt_segments) = 2
    /\ fmt_segments[1].text = <<65>>
    /\ fmt_segments[2].text = <<65>>
    /\ fmt_active = <<"Reset", "Red">>

\* C25: every Plain segment of bytes_to_ansi_segments carries the active
\* color of its run, every Escape segment the accent color: DarkGray when
\* the active color is Yellow, Yellow otherwise.
C25_PlainActiveEscapeAccent ==
    fmt_op = "ansi" =>
        \A k \in 1..Len(fmt_segments) :
            /\ fmt_segments[k].kind = "Plain" => fmt_segments[k].color = fmt_active[k]
            /\ fmt_segments[k].kind = "Escape" =>
                   fmt_segments[k].color =
                       (IF fmt_active[k] = "Yellow" THEN "DarkGray" ELSE "Yellow")

\* a Plain and an Escape segment under Yellow
C25_Witness ==
    /\ fmt_op = "ansi"
    /\ \E k \in 1..Len(fmt_segments) :
           /\ fmt_segments[k].kind = "Escape"
           /\ fmt_active[k] = "Yellow"
           /\ fmt_segments[k].color = "DarkGray"
    /\ \E k \in 1..Len(fmt_segments) :
           /\ fmt_segments[k].kind = "Plain"
           /\ fmt_segments[k].color = "Yellow"

\* C26: after the strip phase the scanned byte stream holds no ESC[m, no
\* ESC[8D and no ESC[J, also none formed by the removal of another one.
C26_NoControlSequenceScanned ==
    fmt_op = "ansi" =>
        \A k \in 1..Len(Stripped) : ~contains(fmt_scanned, Stripped[k])

\* C37: for bytes without an ESC byte, bytes_to_ansi_segments returns the
\* segments of bytes_to_mixed_segments (same number, same text, same
\* kind), every Plain one colored Reset and every Escape one colored
\* Yellow.
C37_AnsiIsMixedWithoutEsc ==
    (fmt_op = "ansi" /\ \A i \in DOMAIN fmt_bytes : fmt_bytes[i] # ESC) =>
        LET mixed == bytes_to_mixed_segments(fmt_bytes)
        IN  /\ Len(fmt_segments) = Len(mixed)
            /\ \A i \in DOMAIN mixed :
                  /\ fmt_segments[i].text = mixed[i].text
                  /\ fmt_segments[i].kind = mixed[i].kind
                  /\ fmt_segments[i].color =
                         (IF mixed[i].kind = "Plain" THEN "Reset" ELSE "Yellow")

\* "A", 0xff, \r given to the ANSI view: a Plain and an Escape segment
C37_Witness ==
    /\ fmt_op = "ansi"
    /\ fmt_bytes = <<65, 255, 13>>
    /\ Len(fmt_segments) = 2
    /\ fmt_segments[2] = [text |-> <<92, 120, 102, 102, 92, 114>>,
                          kind |-> "Escape", color |-> "Yellow"]

----------------------------------------------------------------------------
(* The engine under fair scheduling *)

\* a tick serviced after time has passed: the interval fires every TickMs,
\* so ticks that see no time pass cannot go on for ever
TimedTick ==
    (\E dt \in Elapsed \ {0} : Tick(dt)) /\ UNCHANGED <<queue_vars, other_vars>>

\* the read that ends the tick branch
ReadTurn == ReadStep /\ UNCHANGED <<queue_vars, other_vars>>

\* select! takes the tick branch again and again, and a tick branch that
\* was entered runs to its end
SpecLive == Init /\ [][Next]_vars /\ SF_vars(TimedTick) /\ WF_vars(ReadTurn)

\* a step of the command branch: a command, or the closed channel
CommandStep == ConnectStep \/ Disconnect \/ SendStep \/ Closed

\* C27: with a desired config set and no handle open (as after a link
\* loss), once no command is handled any more and the desired device can
\* be opened from some point on, the engine reports Connected again (and
\* again after every later link loss); with no desired config set the
\* engine is and stays Disconnected, without a handle and without trying
\* to open, until a Connect is handled.
C27_ReconnectsWithoutCommand ==
    /\ (/\ <>[][~CommandStep]_vars
        /\ <>[](desired # <<>> => desired[1].port \in openable))
           => \/ <>(pc = "done")
              \/ <>[](desired = <<>>)
              \/ []<>(reported = "Connected" /\ port = "Some")
    /\ [](desired = <<>> => (state = "Disconnected" /\ port = None))
    /\ [][(desired = <<>> /\ ~ConnectStep) =>
             (desired' = <<>> /\ state' = "Disconnected" /\ OpensIn(calls') = 0)]_vars

\* a retry on a tick opened the device after a link loss: the last event
\* before the retry was the Connecting of the read error
C27_Witness ==
    /\ pc = "read"
    /\ calls = <<Call("open", "Ok")>>
    /\ prev_evt = StateEvt("Connecting")
    /\ reported = "Connected"
    /\ port = "Some"

----------------------------------------------------------------------------
(* More properties of the engine by itself *)

\* C28: a failed open sets the retry deadline to now + the backoff held
\* before the doubling; a tick before the deadline only lets time pass; a
\* tick calls try_open exactly when a desired config is set, no handle is
\* open and the deadline has passed.
C28_RetryOnlyAtDeadline ==
    [][ /\ OpenFailed => next_retry' = backoff_ms
        /\ \A dt \in Elapsed :
              Tick(dt) =>
                  /\ (OpensIn(calls') > 0) <=>
                         (desired # <<>> /\ port = None /\ next_retry <= dt)
                  /\ next_retry > dt =>
                         /\ next_retry' = next_retry - dt
                         /\ events' = <<>>
                         /\ UNCHANGED <<state, port, backoff_ms>> ]_vars

\* the second attempt failed 30 ms ago: the deadline is 400 ms after it and
\* the tick before it made no attempt
C28_Witness ==
    /\ pc = "read"
    /\ calls = <<>>
    /\ events = <<>>
    /\ desired # <<>>
    /\ port = None
    /\ prev_evt[1] = "Error"
    /\ next_retry = 370
    /\ backoff_ms = 800

\* C29: a successful open, of a Connect command or of a retry, sends
\* exactly Connecting, Connected and the System message for the opened
\* config, in that order; a failed open sends Connecting and then exactly
\* one Error.
C29_OpenEventSequence ==
    [][ /\ OpenSucceeded =>
              /\ desired' # <<>>
              /\ events' = <<StateEvt("Connecting"), StateEvt("Connected"),
                             MessageEvt("System", ConnectedText(desired'[1]))>>
        /\ OpenFailed =>
              /\ Len(events') = 2
              /\ events'[1] = StateEvt("Connecting")
              /\ events'[2][1] = "Error" ]_vars

\* a Connect command dropped the open handle and opened the device again
C29_Witness ==
    /\ pc = "select"
    /\ calls = <<Call("drop", "Ok"), Call("open", "Ok")>>
    /\ Len(events) = 3
    /\ events[3][1] = "Message"
    /\ events[3][2] = "System"

\* C30: a read of zero bytes sends nothing, a read of N > 0 bytes sends one
\* Rx message with exactly those bytes and nothing else, no other step
\* sends an Rx message, and no Rx message is empty.
C30_RxIsWhatWasRead ==
    /\ [](\A i \in DOMAIN events : events[i] # MessageEvt("Rx", <<>>))
    /\ [][ /\ \A b \in Payloads :
                (TickRead(<<"Ok", b>>) /\ port = "Some") =>
                    /\ events' = events \o (IF b = <<>> THEN <<>>
                                            ELSE <<MessageEvt("Rx", b)>>)
                    /\ UNCHANGED engine
           /\ (~ReadStep /\ events' # events) =>
                  \A i \in DOMAIN events' :
                      ~(events'[i][1] = "Message" /\ events'[i][2] = "Rx") ]_vars

\* a tick opened the device and read a byte from it
C30_Witness ==
    /\ pc = "select"
    /\ calls = <<Call("open", "Ok"), Call("read", "Ok")>>
    /\ Len(events) = 4
    /\ events[4] = MessageEvt("Rx", <<65>>)

\* C32: a Connect command handled while a handle is open closes that
\* handle before it calls try_open, whether or not the config is the one
\* in use; when that open fails the engine holds no handle, is (and
\* reports) Connecting, keeps the config as desired and has the retry
\* deadline one backoff ahead: the connection it had is gone.
C32_ConnectDropsTheOpenHandle ==
    [][(ConnectStep /\ port = "Some") =>
          /\ Len(calls') = 2
          /\ calls'[1] = Call("drop", "Ok")
          /\ calls'[2][1] = "open"
          /\ live_at_open' = handles - 1
          /\ calls'[2] = Call("open", "Err") =>
                /\ port' = None
                /\ handles' = handles - 1
                /\ state' = "Connecting"
                /\ reported' = "Connecting"
                /\ desired' # <<>>
                /\ next_retry' = backoff_ms
                /\ next_retry' > 0]_vars

\* connected to ttyUSB0, then a Connect with the same config failed: the
\* old handle is closed and none is open
C32_Witness ==
    /\ prev_evt = MessageEvt("System", ConnectedText([port |-> "ttyUSB0", baudrate |-> DefaultBaud]))
    /\ events = <<StateEvt("Connecting"),
                  ErrorEvt(OpenFailedText([port |-> "ttyUSB0", baudrate |-> DefaultBaud]))>>
    /\ calls = <<Call("drop", "Ok"), Call("open", "Err")>>
    /\ handles = 0
    /\ state = "Connecting"

\* C34: whenever the task is at its select!, state is Disconnected exactly
\* when no desired config is set, Connected exactly when a handle is open,
\* and Connecting exactly when a desired config is set and no handle is
\* open; a handle is never open without a desired config (also inside the
\* tick branch), and so the read of a tick never takes the branch that
\* goes to Disconnected.
C34_StateFollowsDesiredAndHandle ==
    /\ [](pc = "select" =>
            /\ (state = "Disconnected") <=> (desired = <<>>)
            /\ (state = "Connected") <=> (port = "Some")
            /\ (state = "Connecting") <=> (desired # <<>> /\ port = None))
    /\ [](port = "Some" => desired # <<>>)
    /\ [][ReadStep =>
            /\ \A i \in DOMAIN NewEvents(events, events') :
                   NewEvents(events, events')[i] # StateEvt("Disconnected")
            /\ state' = "Disconnected" => state = "Disconnected"]_vars

\* a read failed on a handle opened by a retry: the task is back at its
\* select!, Connecting, with the config still desired
C34_Witness ==
    /\ pc = "select"
    /\ calls = <<Call("open", "Ok"), Call("read", "BrokenPipe"), Call("drop", "Ok")>>
    /\ state = "Connecting"
    /\ desired # <<>>
    /\ port = None

\* the events a step has sent
Sent == IF ReadStep THEN NewEvents(events, events') ELSE events'

\* C35: whenever the task is at its select! (and also between the two
\* halves of the tick branch) the state carried by the last
\* ConnectionState event sent is the value of state; a step that changes
\* state sends the new value, and it is the last state the step sends.
C35_ReportedStateIsState ==
    /\ [](pc \in {"select", "read"} => reported = state)
    /\ [][state' # state => LastState(Sent, "none") = state']_vars

\* a retry opened the device, then the read lost the link: state changed
\* three times in one tick and the last value sent is the current one
C35_Witness ==
    /\ pc = "select"
    /\ Len(events) = 5
    /\ events[2] = StateEvt("Connected")
    /\ events[5] = StateEvt("Connecting")
    /\ reported = "Connecting"
    /\ state = "Connecting"

----------------------------------------------------------------------------
(***************************************************************************)
(* Part 6: the engine with its command channel, events drained.            *)
(*                                                                         *)
(* The consumer of the events keeps receiving, so no send of an event      *)
(* holds a handler (the event channel is the subject of Part 2 and is not  *)
(* looked at here).  The command channel holds up to CmdDepth commands,    *)
(* which lets a command wait behind another one.                           *)
(***************************************************************************)

\* the commands that are queued: a Connect for each port, Disconnect, and
\* SendBytes with two payloads that differ
QueuedCommands ==
    {<<"Connect", cfg>> : cfg \in SerialConfig}
        \cup {<<"Disconnect">>}
        \cup {<<"SendBytes", <<b>>>> : b \in ByteVals}

\* a caller sends a command (gui_main.rs:283-286, 318-321, 552-555); the
\* channel puts it behind the commands it holds
QueueCommand(c) ==
    /\ senders_alive
    /\ Len(cmd_queue) < CmdDepth
    /\ cmd_queue' = Append(cmd_queue, c)
    /\ UNCHANGED <<engine_vars, senders_alive, evt_queue, outbox,
                   consumer_alive, in_flight, last_recv>>
    /\ UNCHANGED other_vars

\* the handler of command c (engine.rs:47-97)
Handle(c) ==
    CASE c[1] = "Connect" -> Connect(c[2])
      [] c[1] = "Disconnect" -> Disconnect
      [] c[1] = "SendBytes" -> \E wr \in WriteResults : SendBytes(c[2], wr)

\* mutant of ServeCommand: the command sent last is received first
ServeCommand_NewestFirst ==
    /\ cmd_queue # <<>>
    /\ Handle(cmd_queue[Len(cmd_queue)])
    /\ cmd_queue' = SubSeq(cmd_queue, 1, Len(cmd_queue) - 1)
    /\ UNCHANGED <<senders_alive, evt_queue, outbox, consumer_alive,
                   in_flight, last_recv>>
    /\ UNCHANGED other_vars

\* engine.rs:45-98: cmd_rx.recv() yields the oldest command of the channel
\* and the command branch handles it
ServeCommand ==
    /\ cmd_queue # <<>>
    /\ Handle(Head(cmd_queue))
    /\ cmd_queue' = Tail(cmd_queue)
    /\ UNCHANGED <<senders_alive, evt_queue, outbox, consumer_alive,
                   in_flight, last_recv>>
    /\ UNCHANGED other_vars

\* engine.rs:45-46: cmd_rx.recv() yields None
ServeClosed ==
    /\ cmd_queue = <<>>
    /\ ~senders_alive
    /\ Closed
    /\ UNCHANGED <<queue_vars, other_vars>>

\* engine.rs:99-128, whatever the time since the last tick
ServeTick == (\E dt \in Stalled : Tick(dt)) /\ UNCHANGED <<queue_vars, other_vars>>

NextCmd ==
    \/ \E c \in QueuedCommands : QueueCommand(c)
    \/ DropSenders
    \/ ServeCommand
    \/ ServeClosed
    \/ ServeTick
    \/ ReadTurn
    \/ (\E p \in Ports : DeviceChange(p)) /\ UNCHANGED <<queue_vars, other_vars>>

SpecCmd == Init /\ [][NextCmd]_vars

----------------------------------------------------------------------------
(* Properties of the engine with its command channel *)

\* the events the step at hand has sent: all events of a handler that
\* starts, the added ones of the read that ends a tick branch
Emitted ==
    IF ReadTurn THEN NewEvents(events, events')
    ELSE IF ServeCommand \/ ServeTick \/ ServeClosed THEN events'
    ELSE <<>>

\* C31: a Tx message is sent only by the handler of a SendBytes command
\* whose write_all on an open handle returned Ok, it is the only event of
\* that handler and carries the bytes of that command, and every such
\* command gets its Tx message; the handler always takes the oldest command
\* of the channel and every other step leaves the queued commands in place
\* (new ones go behind), so Tx messages come in the order in which the
\* SendBytes commands were queued.
C31_TxForWrittenBytesInOrder ==
    [][/\ \A i \in DOMAIN Emitted :
            (Emitted[i][1] = "Message" /\ Emitted[i][2] = "Tx") =>
                /\ ServeCommand
                /\ port = "Some"
                /\ Head(cmd_queue) = <<"SendBytes", Emitted[i][3]>>
                /\ calls' = <<Call("write", "Ok")>>
                /\ Len(Emitted) = 1
       /\ (ServeCommand /\ calls' = <<Call("write", "Ok")>>) =>
              /\ Head(cmd_queue)[1] = "SendBytes"
              /\ Emitted = <<MessageEvt("Tx", Head(cmd_queue)[2])>>
       /\ ServeCommand => cmd_queue' = Tail(cmd_queue)
       /\ ~ServeCommand => IsPrefix(cmd_queue, cmd_queue')]_vars

\* the bytes of the older of two SendBytes commands were written and
\* reported; the younger command, with other bytes, is still queued
C31_Witness ==
    /\ events = <<MessageEvt("Tx", <<65>>)>>
    /\ calls = <<Call("write", "Ok")>>
    /\ cmd_queue = <<<<"SendBytes", <<10>>>>>>
    /\ port = "Some"

\* select! polls its two branches in random order, so with both ready
\* neither is passed over for ever: the command branch is taken again and
\* again while a command waits, and a tick branch that was entered runs to
\* its end
SpecCmdLive == Init /\ [][NextCmd]_vars /\ SF_vars(ServeCommand) /\ WF_vars(ReadTurn)

\* what the handler of command c does and no other handler does
Served(c) ==
    CASE c[1] = "Connect" ->
             /\ desired' = <<c[2]>>
             /\ OpensIn(calls') = 1
             /\ events'[1] = StateEvt("Connecting")
      [] c[1] = "Disconnect" ->
             /\ desired' = <<>>
             /\ events' = <<StateEvt("Disconnected")>>
      [] c[1] = "SendBytes" ->
             /\ desired' = desired
             /\ Len(events') = 1
             /\ events'[1] \in {MessageEvt("Tx", c[2]), ErrorEvt(NotConnectedText)}
                                  \cup {ErrorEvt(IoErrorText(k)) : k \in IoErrorKinds}
             /\ WritesIn(calls') = (IF port = "Some" THEN 1 ELSE 0)

\* C33: the engine takes the commands out of the channel one at a time,
\* oldest first, and handles the one it took; no other step removes,
\* reorders or handles a command (the desired config changes only with a
\* command); and with ticks ready all the time a waiting command is still
\* taken: either the channel is empty again and again or commands are
\* taken again and again, so none waits for ever.
C33_CommandsOnceInOrderNotStarved ==
    /\ [][/\ ServeCommand => (cmd_queue' = Tail(cmd_queue) /\ Served(Head(cmd_queue)))
          /\ ~ServeCommand => (IsPrefix(cmd_queue, cmd_queue') /\ desired' = desired)]_vars
    /\ ([]<>(cmd_queue = <<>>) \/ []<><<ServeCommand>>_vars)

\* a tick is being serviced while two different commands wait
C33_Witness ==
    /\ pc = "read"
    /\ Len(cmd_queue) = 2
    /\ cmd_queue[1] = <<"Disconnect">>
    /\ cmd_queue[2][1] = "Connect"
    /\ port = "Some"

----------------------------------------------------------------------------
(***************************************************************************)
(* Part 7: the history of the GUI's command line (src/gui_main.rs).        *)
(*                                                                         *)
(* A String is the sequence of its characters' code points.                *)
(***************************************************************************)

\* char::is_whitespace on ASCII
IsSpace(c) == c \in {9, 10, 11, 12, 13, 32}

RECURSIVE TrimStart(_)
TrimStart(s) ==
    IF s # <<>> /\ IsSpace(Head(s)) THEN TrimStart(Tail(s)) ELSE s

RECURSIVE TrimEnd(_)
TrimEnd(s) ==
    IF s # <<>> /\ IsSpace(s[Len(s)]) THEN TrimEnd(SubSeq(s, 1, Len(s) - 1)) ELSE s

\* str::trim (gui_main.rs:527)
Trim(s) == TrimEnd(TrimStart(s))

\* what the input field can hold: nothing, a blank, "a", "b", " a", "b ",
\* "a b"
InputTexts ==
    {<<>>, <<32>>, <<97>>, <<98>>, <<32, 97>>, <<98, 32>>, <<97, 32, 98>>}

\* gui_main.rs:508: Message::InputChanged(s)
InputChanged(s) ==
    /\ input' = s
    /\ hist_msg' = "InputChanged"
    /\ UNCHANGED <<history, history_index, history_backup, nav_input>>
    /\ UNCHANGED <<engine_vars, queue_vars, fan_vars, mux_vars, fmt_vars, lines>>

\* gui_main.rs:526-538: Message::SendPressed, up to the push on the history
SendPressed ==
    LET raw == Trim(input)
        repeated == history # <<>> /\ history[Len(history)] = raw
    IN  /\ raw = <<>> \/ repeated \/ Len(history) < MaxHistory
        /\ hist_msg' = "SendPressed"
        /\ IF raw = <<>>
             THEN UNCHANGED <<input, history, history_index>>
             ELSE /\ input' = <<>>
                  /\ history_index' = <<>>
                  /\ history' = IF repeated THEN history ELSE Append(history, raw)
        /\ UNCHANGED <<history_backup, nav_input>>
        /\ UNCHANGED <<engine_vars, queue_vars, fan_vars, mux_vars, fmt_vars, lines>>

\* mutant of apply_history_prev: the input is saved on every step back, not
\* only on the first
apply_history_prev_SaveAlways ==
    /\ hist_msg' = "HistoryPrev"
    /\ IF history = <<>>
         THEN UNCHANGED <<input, history_index, history_backup, nav_input>>
         ELSE /\ history_index' =
                    IF history_index = <<>> THEN <<Len(history) - 1>>
                    ELSE IF history_index = <<0>> THEN history_index
                    ELSE <<history_index[1] - 1>>
              /\ history_backup' = input
              /\ nav_input' = IF history_index = <<>> THEN input ELSE nav_input
              /\ input' = history[history_index'[1] + 1]
    /\ UNCHANGED history
    /\ UNCHANGED <<engine_vars, queue_vars, fan_vars, mux_vars, fmt_vars, lines>>

\* gui_main.rs:227-244 (Message::HistoryPrev, line 600)
apply_history_prev ==
    /\ hist_msg' = "HistoryPrev"
    /\ IF history = <<>>
         THEN UNCHANGED <<input, history_index, history_backup, nav_input>>
         ELSE /\ history_index' =
                    IF history_index = <<>> THEN <<Len(history) - 1>>
                    ELSE IF history_index = <<0>> THEN history_index
                    ELSE <<history_index[1] - 1>>
              /\ history_backup' = IF history_index = <<>> THEN input ELSE history_backup
              /\ nav_input' = IF history_index = <<>> THEN input ELSE nav_input
              /\ input' = history[history_index'[1] + 1]
    /\ UNCHANGED history
    /\ UNCHANGED <<engine_vars, queue_vars, fan_vars, mux_vars, fmt_vars, lines>>

\* gui_main.rs:246-262 (Message::HistoryNext, line 601)
apply_history_next ==
    /\ hist_msg' = "HistoryNext"
    /\ IF history = <<>> \/ history_index = <<>>
         THEN UNCHANGED <<input, history_index>>
         ELSE IF history_index[1] = Len(history) - 1
                THEN /\ history_index' = <<>>
                     /\ input' = history_backup
                ELSE /\ history_index' = <<history_index[1] + 1>>
                     /\ input' = history[history_index'[1] + 1]
    /\ UNCHANGED <<history, history_backup, nav_input>>
    /\ UNCHANGED <<engine_vars, queue_vars, fan_vars, mux_vars, fmt_vars, lines>>

NextHist ==
    \/ \E s \in InputTexts : InputChanged(s)
    \/ SendPressed
    \/ apply_history_prev
    \/ apply_history_next

\* the engine is left alone: no device, no command
InitGui == Init /\ openable = {}

SpecHist == InitGui /\ [][NextHist]_vars

\* C38: history_index is unset or an index into history; HistoryPrev at
\* index 0 leaves the index 0 and shows the oldest entry; HistoryNext at
\* the newest entry unsets the index and puts back the input text that was
\* there when the index was last set from unset; SendPressed and
\* HistoryPrev/HistoryNext never remove or change an entry.
C38_HistoryIndexValid ==
    /\ [](history_index # <<>> => history_index[1] \in 0..(Len(history) - 1))
    /\ [][/\ (hist_msg' = "HistoryPrev" /\ history_index = <<0>>) =>
                (history_index' = <<0>> /\ input' = history[1])
          /\ (hist_msg' = "HistoryNext" /\ history_index = <<Len(history) - 1>>) =>
                (history_index' = <<>> /\ input' = nav_input)
          /\ IsPrefix(history, history')]_vars

\* "a b" was typed with two entries in the history and saved on going back;
\* HistoryNext was handled last and the typed text is in the input field
C38_Witness ==
    /\ hist_msg = "HistoryNext"
    /\ history_index = <<>>
    /\ Len(history) = 2
    /\ input = <<97, 32, 98>>
    /\ nav_input = <<97, 32, 98>>

----------------------------------------------------------------------------
(***************************************************************************)
(* Part 8: the lines of the terminal view (src/gui/terminal_view.rs).      *)
(*                                                                         *)
(* add_line moves the TerminalLine it is given into the deque untouched,   *)
(* so a line is known by when it was added: the model writes for a line    *)
(* the number of add_line calls since the last clear().  What the callers  *)
(* format decides only how many lines they add.                            *)
(***************************************************************************)

\* the line the next add_line call adds
NextLine(ls) == IF ls = <<>> THEN 1 ELSE ls[Len(ls)] + 1

\* mutant of add_line: the oldest line goes only once the view holds more
\* than MAX_LINES
add_line_OffByOne(ls, line) ==
    (IF Len(ls) > MAX_LINES THEN Tail(ls) ELSE ls) \o <<line>>

\* terminal_view.rs:152-157
add_line(ls, line) ==
    (IF Len(ls) >= MAX_LINES THEN Tail(ls) ELSE ls) \o <<line>>

\* the loops of lines 172-178 and 182-188: n calls of add_line
RECURSIVE AddLines(_, _)
AddLines(ls, n) ==
    IF n = 0 THEN ls ELSE AddLines(add_line(ls, NextLine(ls)), n - 1)

\* terminal_view.rs:163-169: what one received byte is shown as
ViewPushed(b) ==
    IF b = 10 THEN <<92, 110>>
    ELSE IF b = 13 THEN <<92, 114>>
    ELSE IF b = 9 THEN <<92, 116>>
    ELSE IF b \in 32..126 THEN <<b>>
    ELSE <<92, 120, HexDigit(b \div 16), HexDigit(b % 16)>>

RECURSIVE ViewContent(_, _)
ViewContent(data, i) ==
    IF i > Len(data) THEN <<>> ELSE ViewPushed(data[i]) \o ViewContent(data, i + 1)

\* str::lines() yields one line for each \n and one more for what follows
\* the last \n, if anything does
LineCount(str) ==
    Cardinality({i \in DOMAIN str : str[i] = 10})
        + (IF str # <<>> /\ str[Len(str)] # 10 THEN 1 ELSE 0)

\* received bytes: none, "A", \n, "A\nB"
RxData == {<<>>, <<65>>, <<10>>, <<65, 10, 66>>}

\* sent text: "", "a", "a\n", "\n", "a\nb"
SentTexts == {<<>>, <<97>>, <<97, 10>>, <<10>>, <<97, 10, 98>>}

\* sent bytes: none, 0xff
SentBytes == {<<>>, <<255>>}

\* the view takes n more lines while fewer than MAX_LINES + Overfill were
\* added since the last clear()
Room(n) == NextLine(lines) + n - 1 <= MAX_LINES + Overfill

\* terminal_view.rs:159-179
add_received_data(data) ==
    LET n == LineCount(ViewContent(data, 1))
    IN  /\ Room(n)
        /\ lines' = AddLines(lines, n)
        /\ UNCHANGED <<engine_vars, queue_vars, fan_vars, mux_vars, fmt_vars, hist_vars>>

\* terminal_view.rs:181-189
add_sent_data(data) ==
    LET n == LineCount(data)
    IN  /\ Room(n)
        /\ lines' = AddLines(lines, n)
        /\ UNCHANGED <<engine_vars, queue_vars, fan_vars, mux_vars, fmt_vars, hist_vars>>

\* terminal_view.rs:191-200: one line whatever the bytes
add_sent_bytes(bytes) ==
    /\ Room(1)
    /\ lines' = add_line(lines, NextLine(lines))
    /\ UNCHANGED <<engine_vars, queue_vars, fan_vars, mux_vars, fmt_vars, hist_vars>>

\* terminal_view.rs:202-206
clear ==
    /\ lines' = <<>>
    /\ UNCHANGED <<engine_vars, queue_vars, fan_vars, mux_vars, fmt_vars, hist_vars>>

NextView ==
    \/ \E data \in RxData : add_received_data(data)
    \/ \E data \in SentTexts : add_sent_data(data)
    \/ \E bytes \in SentBytes : add_sent_bytes(bytes)
    \/ clear

SpecView == InitGui /\ [][NextView]_vars

\* the number of lines a step has added
Added ==
    IF lines' = <<>> THEN 0
    ELSE lines'[Len(lines')] - (IF lines = <<>> THEN 0 ELSE lines[Len(lines)])

\* C39: the view never holds more than MAX_LINES lines; a step that adds
\* lines drops one line for each line added to a full view, the oldest
\* ones, keeps the others in their order and puts the new lines behind
\* them in the order they were added.
C39_AtMostMaxLinesOldestDropped ==
    /\ [](Len(lines) <= MAX_LINES)
    /\ [][lines' # <<>> =>
            LET n == Added
                d == Max(0, Len(lines) + n - MAX_LINES)
                kept == Len(lines) - d
            IN  /\ n >= 0
                /\ Len(lines') = kept + n
                /\ \A i \in 1..kept : lines'[i] = lines[i + d]
                /\ \A j \in 1..n : lines'[kept + j] = NextLine(lines) + j - 1]_vars

\* the view is full and two lines were added to it since: the two oldest
\* lines are gone and the third is the oldest now
C39_Witness ==
    /\ Len(lines) = MAX_LINES
    /\ lines[1] = 3
    /\ lines[MAX_LINES] = MAX_LINES + 2


====
